---- MODULE Spec2Model ----
(***************************************************************************)
(* Memory storage and retrieval subsystem of ts-memory-agent: the Redis    *)
(* backend (redis-storage.ts), the SQLite backend (sqlite-storage.ts) and  *)
(* the ProjectMemory facade (project-memory.ts).                           *)
(*                                                                         *)
(* Conventions                                                             *)
(*   - importance is counted in hundredths: 0.8 is 80, 1.5 is 150.         *)
(*   - time is a logical clock `now`, one unit per day; several operations *)
(*     may read the same clock value, as several calls may fall into one   *)
(*     millisecond of Date.now().                                          *)
(*   - an optional value (a field that may be undefined, a column that may *)
(*     be NULL, a get that may return null) is <<>> or <<v>>.              *)
(*   - a string that is searched is a sequence of one-character strings.   *)
(*   - an id is a number; a fresh uuid is any number not used before, and  *)
(*     the lexicographic order of uuids is the order of the numbers.       *)
(***************************************************************************)
EXTENDS Integers, Sequences, FiniteSets, TLC

VARIABLES
  cfg,      \* the configuration of the backends and the inputs of the run
  now,      \* the clock
  usedIds,  \* the uuids generated so far
  sqlite,   \* table project_memories: id -> row
  redis,    \* the Redis keyspace: entry keys, embedding keys, sorted sets
  last      \* the last call made on a backend, and what it returned

vars == <<cfg, now, usedIds, sqlite, redis, last>>

---------------------------------------------------------------------------
(* Bounds of the model. *)

MaxIds == 2

MaxTime == 2

MaxAccess == 1

(* Program constants. *)

DefaultMaxMemories == 10000

BatchMargin == 100

ExemptImportance == 80

DefaultLimit == 10

EmbeddingPoolStop == 100

SqliteEmbeddingPool == 100

KeywordPoolStop == 500

ImportanceScale == 10

DefaultImportance == 50

---------------------------------------------------------------------------
(* Optional values and small helpers. *)

None == <<>>

Some(v) == <<v>>

IsSome(o) == o # <<>>

Val(o) == o[1]

Min(a, b) == IF a < b THEN a ELSE b

Max(a, b) == IF a > b THEN a ELSE b

EmptyFn == <<>>

Restrict(f, S) == [x \in S |-> f[x]]

Put(f, k, v) == [x \in (DOMAIN f) \cup {k} |-> IF x = k THEN v ELSE f[x]]

Drop(f, k) == [x \in (DOMAIN f) \ {k} |-> f[x]]

Range(s) == {s[i] : i \in DOMAIN s}

(* The first n elements of a sequence (Array.slice(0, n), SQL LIMIT n). *)
Take(s, n) == IF n <= 0 THEN <<>> ELSE SubSeq(s, 1, Min(n, Len(s)))

(* Lexicographic order on integer tuples of the same length. *)
RECURSIVE LexLess(_, _)
LexLess(a, b) ==
  IF a = <<>> THEN FALSE
  ELSE IF a[1] # b[1] THEN a[1] < b[1]
  ELSE LexLess(Tail(a), Tail(b))

(* The elements of S in increasing order of key[x]; key is injective. The  *)
(* i-th is the one that has i - 1 elements before it.                      *)
SortedBy(S, key) ==
  LET rank == [x \in S |-> Cardinality({y \in S : LexLess(key[y], key[x])})]
  IN  [i \in 1..Cardinality(S) |-> CHOOSE x \in S : rank[x] = i - 1]

---------------------------------------------------------------------------
(* JSON text. JSON.stringify of an array, an object or an entry is never   *)
(* the empty string, so a serialized value is always truthy.               *)

JsonStringify(v) == [json |-> v]

JsonParse(t) == t.json

(* `x ? JSON.stringify(x) : null` for an array or object x: an empty array *)
(* and an empty object are truthy.                                         *)
StringifyOrNull(o) == IF IsSome(o) THEN Some(JsonStringify(Val(o))) ELSE None

(* `col ? JSON.parse(col) : undefined` for a TEXT column. *)
ParseOrUndefined(col) == IF IsSome(col) THEN Some(JsonParse(Val(col))) ELSE None

---------------------------------------------------------------------------
(* Configuration. *)

(* { maxMemories: 10000, ...config }: the default stands when the caller    *)
(* gives none.                                                             *)
MaxMemoriesOf(c) ==
  IF IsSome(c.maxMemories) THEN Val(c.maxMemories) ELSE DefaultMaxMemories

---------------------------------------------------------------------------
(* Redis: keys with an optional expiry, and sorted sets.                   *)
(*   redis.entry : <<project, id>> -> [val, exp]   the entry records       *)
(*   redis.emb   : <<project, id>> -> [val, exp]   the embedding vectors   *)
(*   redis.idx   : <<project, kind, name>> -> [member -> score]            *)
(* A key is absent when it is not in the domain; a sorted set that becomes *)
(* empty is removed, as Redis removes it.                                  *)

EmptyRedis == [entry |-> EmptyFn, emb |-> EmptyFn, idx |-> EmptyFn]

memoryKey(p, id) == <<p, id>>

embeddingKey(p, id) == <<p, id>>

indexKey(p, kind, name) == <<p, kind, name>>

(* SET key value EX ttl at time t. *)
SetEx(m, k, v, ttl, t) == Put(m, k, [val |-> v, exp |-> Some(t + ttl)])

(* SET key value KEEPTTL: an existing key keeps its expiry, a key that     *)
(* does not exist is created without one.                                  *)
SetKeepTtl(m, k, v) ==
  Put(m, k, [val |-> v, exp |-> IF k \in DOMAIN m THEN m[k].exp ELSE None])

(* The keys that have not expired at time t. *)
Unexpired(m, t) ==
  Restrict(m, {k \in DOMAIN m : ~IsSome(m[k].exp) \/ Val(m[k].exp) > t})

ZSet(R, k) == IF k \in DOMAIN R.idx THEN R.idx[k] ELSE EmptyFn

ZCard(R, k) == Cardinality(DOMAIN ZSet(R, k))

ZAdd(R, k, score, member) ==
  [R EXCEPT !.idx = Put(R.idx, k, Put(ZSet(R, k), member, score))]

ZRem(R, k, member) ==
  LET z == Drop(ZSet(R, k), member)
  IN  [R EXCEPT !.idx = IF DOMAIN z = {} THEN Drop(R.idx, k) ELSE Put(R.idx, k, z)]

(* The members of a sorted set, by score and then by member. *)
ZAscending(z) == SortedBy(DOMAIN z, [x \in DOMAIN z |-> <<z[x], x>>])

ZDescending(z) == SortedBy(DOMAIN z, [x \in DOMAIN z |-> <<0 - z[x], 0 - x>>])

(* Elements start..stop of s, both counted from 0 and inclusive; a negative *)
(* index counts from the end (-1 is the last element).                      *)
IndexRange(s, start, stop) ==
  LET n  == Len(s)
      lo == IF start < 0 THEN Max(n + start, 0) ELSE start
      hi == IF stop < 0 THEN n + stop ELSE Min(stop, n - 1)
  IN  IF lo > hi \/ lo >= n THEN <<>> ELSE SubSeq(s, lo + 1, hi + 1)

ZRange(R, k, start, stop) == IndexRange(ZAscending(ZSet(R, k)), start, stop)

ZRevRange(R, k, start, stop) == IndexRange(ZDescending(ZSet(R, k)), start, stop)

---------------------------------------------------------------------------
(* RedisStorage, bound to project p. Every operation is a function from    *)
(* the keyspace R (and the clock t) to the keyspace it leaves.             *)

RECURSIVE ZAddTags(_, _, _, _, _)
ZAddTags(R, p, tags, score, id) ==
  IF tags = <<>> THEN R
  ELSE ZAddTags(ZAdd(R, indexKey(p, "tag", Head(tags)), score, id),
                p, Tail(tags), score, id)

RECURSIVE ZRemTags(_, _, _, _)
ZRemTags(R, p, tags, id) ==
  IF tags = <<>> THEN R
  ELSE ZRemTags(ZRem(R, indexKey(p, "tag", Head(tags)), id), p, Tail(tags), id)

RedisAddToIndexes(R, p, entry, t) ==
  LET score == t
      R1 == ZAdd(R, indexKey(p, "type", entry.type), score, entry.id)
      R2 == ZAdd(R1, indexKey(p, "importance", ""),
                 entry.importance * ImportanceScale, entry.id)
      R3 == ZAdd(R2, indexKey(p, "recent", ""), score, entry.id)
      R4 == IF IsSome(entry.tags)
            THEN ZAddTags(R3, p, Val(entry.tags), score, entry.id)
            ELSE R3
  IN  ZAdd(R4, indexKey(p, "all", ""), score, entry.id)

(* removeFromIndexes as it would be without the loop over the tags. *)
RemoveFromIndexesKeepsTags(R, p, entry) ==
  LET R1 == ZRem(R, indexKey(p, "type", entry.type), entry.id)
      R2 == ZRem(R1, indexKey(p, "importance", ""), entry.id)
      R3 == ZRem(R2, indexKey(p, "recent", ""), entry.id)
  IN  ZRem(R3, indexKey(p, "all", ""), entry.id)

RedisRemoveFromIndexes(R, p, entry) ==
  LET R1 == ZRem(R, indexKey(p, "type", entry.type), entry.id)
      R2 == ZRem(R1, indexKey(p, "importance", ""), entry.id)
      R3 == ZRem(R2, indexKey(p, "recent", ""), entry.id)
      R4 == ZRem(R3, indexKey(p, "all", ""), entry.id)
  IN  IF IsSome(entry.tags) THEN ZRemTags(R4, p, Val(entry.tags), entry.id) ELSE R4

RedisGet(R, p, id) ==
  IF memoryKey(p, id) \notin DOMAIN R.entry THEN None
  ELSE LET entry == JsonParse(R.entry[memoryKey(p, id)].val)
       IN  IF embeddingKey(p, id) \in DOMAIN R.emb
           THEN Some([entry EXCEPT
                  !.embedding = Some(JsonParse(R.emb[embeddingKey(p, id)].val))])
           ELSE Some(entry)

RedisDelete(R, p, id) ==
  LET got == RedisGet(R, p, id)
  IN  IF ~IsSome(got) THEN R
      ELSE LET R1 == RedisRemoveFromIndexes(R, p, Val(got))
           IN  [R1 EXCEPT !.entry = Drop(R1.entry, memoryKey(p, id)),
                          !.emb = Drop(R1.emb, embeddingKey(p, id))]

(* for (const id of ids) await this.delete(id): the ids one after another, *)
(* the first half of the sequence and then the second. The keyspace the   *)
(* first half leaves is computed (compared) before the second half is     *)
(* begun, which keeps the evaluation shallow for a long sequence.         *)
RECURSIVE RedisDeleteAll(_, _, _)
RedisDeleteAll(R, p, ids) ==
  IF ids = <<>> THEN R
  ELSE IF Len(ids) = 1 THEN RedisDelete(R, p, ids[1])
  ELSE LET half == Len(ids) \div 2
           R1 == RedisDeleteAll(R, p, SubSeq(ids, 1, half))
       IN  IF R1 = R THEN RedisDeleteAll(R, p, SubSeq(ids, half + 1, Len(ids)))
           ELSE RedisDeleteAll(R1, p, SubSeq(ids, half + 1, Len(ids)))

RedisGetCount(R, p) == ZCard(R, indexKey(p, "all", ""))

RedisEnforceMemoryLimits(R, p, c) ==
  LET count == RedisGetCount(R, p)
      maxMemories == MaxMemoriesOf(c)
  IN  IF count > maxMemories
      THEN LET toDelete == count - maxMemories + BatchMargin
               ids == ZRange(R, indexKey(p, "importance", ""), 0, toDelete - 1)
           IN  RedisDeleteAll(R, p, ids)
      ELSE R

(* store(entry): entry is the caller's part of the record. *)
RedisStore(R, p, c, entry, id, t) ==
  LET fullEntry == [id |-> id, projectId |-> entry.projectId,
                    content |-> entry.content, type |-> entry.type,
                    importance |-> entry.importance, embedding |-> entry.embedding,
                    metadata |-> entry.metadata, tags |-> entry.tags,
                    createdAt |-> t, updatedAt |-> t, accessCount |-> 0]
      entryToStore == [fullEntry EXCEPT !.embedding = None]
      R1 == [R EXCEPT !.entry = SetEx(R.entry, memoryKey(p, id),
                                      JsonStringify(entryToStore), c.ttlDays, t)]
      R2 == IF IsSome(entry.embedding)
            THEN [R1 EXCEPT !.emb = SetEx(R1.emb, embeddingKey(p, id),
                                          JsonStringify(Val(entry.embedding)),
                                          c.ttlDays, t)]
            ELSE R1
      R3 == RedisAddToIndexes(R2, p, fullEntry, t)
  IN  RedisEnforceMemoryLimits(R3, p, c)

(* A mutation of Merge: metadata and tags are taken from updates even when  *)
(* updates does not have them.                                             *)
MergeDroppingAbsent(entry, updates) ==
  [entry EXCEPT
     !.content = IF IsSome(updates.content) THEN Val(updates.content) ELSE @,
     !.importance = IF IsSome(updates.importance) THEN Val(updates.importance) ELSE @,
     !.metadata = updates.metadata,
     !.tags = updates.tags]

(* {...entry, ...updates}: the fields present in updates replace the entry's. *)
Merge(entry, updates) ==
  [entry EXCEPT
     !.content = IF IsSome(updates.content) THEN Val(updates.content) ELSE @,
     !.importance = IF IsSome(updates.importance) THEN Val(updates.importance) ELSE @,
     !.metadata = IF IsSome(updates.metadata) THEN updates.metadata ELSE @,
     !.tags = IF IsSome(updates.tags) THEN updates.tags ELSE @]

(* A mutation of RedisUpdate: the importance index is left as it was. *)
RedisUpdateKeepsScore(R, p, id, updates, t) ==
  LET got == RedisGet(R, p, id)
  IN  IF ~IsSome(got) THEN R
      ELSE LET entry == Val(got)
               R1 == IF IsSome(updates.tags)
                     THEN RedisRemoveFromIndexes(R, p, entry) ELSE R
               updatedEntry == [Merge(entry, updates) EXCEPT
                                  !.updatedAt = t, !.embedding = None]
               R2 == [R1 EXCEPT !.entry = SetKeepTtl(R1.entry, memoryKey(p, id),
                                                     JsonStringify(updatedEntry))]
           IN  IF IsSome(updates.tags)
               THEN RedisAddToIndexes(R2, p, Merge(entry, updates), t)
               ELSE R2

RedisUpdate(R, p, id, updates, t) ==
  LET got == RedisGet(R, p, id)
  IN  IF ~IsSome(got) THEN R
      ELSE LET entry == Val(got)
               R1 == IF IsSome(updates.tags)
                     THEN RedisRemoveFromIndexes(R, p, entry) ELSE R
               updatedEntry == [Merge(entry, updates) EXCEPT
                                  !.updatedAt = t, !.embedding = None]
               R2 == [R1 EXCEPT !.entry = SetKeepTtl(R1.entry, memoryKey(p, id),
                                                     JsonStringify(updatedEntry))]
               R3 == IF IsSome(updates.importance)
                     THEN ZAdd(R2, indexKey(p, "importance", ""),
                               Val(updates.importance) * ImportanceScale, id)
                     ELSE R2
           IN  IF IsSome(updates.tags)
               THEN RedisAddToIndexes(R3, p, Merge(entry, updates), t)
               ELSE R3

RedisIncrementAccess(R, p, id, t) ==
  LET got == RedisGet(R, p, id)
  IN  IF ~IsSome(got) THEN R
      ELSE LET entry == [Val(got) EXCEPT !.accessCount = @ + 1,
                                          !.updatedAt = t, !.embedding = None]
           IN  [R EXCEPT !.entry = SetKeepTtl(R.entry, memoryKey(p, id),
                                              JsonStringify(entry))]

RedisClear(R, p) == RedisDeleteAll(R, p, ZRange(R, indexKey(p, "all", ""), 0, 0 - 1))

(* The passing of time: the keys whose expiry has come are gone. *)
RedisExpire(R, t) == [R EXCEPT !.entry = Unexpired(R.entry, t),
                               !.emb = Unexpired(R.emb, t)]

---------------------------------------------------------------------------
(* SqliteStorage, bound to project p. T is table project_memories, a       *)
(* function from the primary key id to the row.                            *)

EmptyTable == EmptyFn

(* The ids of the rows WHERE project_id = p. *)
ProjectRows(T, p) == {id \in DOMAIN T : T[id].project_id = p}

(* rowToEntry as it would be if it tested the length of the tags, taking  *)
(* an empty list for no list.                                               *)
rowToEntryDropsEmptyTags(id, row) ==
  [id |-> id, projectId |-> row.project_id, content |-> row.content,
   type |-> row.type, importance |-> row.importance,
   embedding |-> ParseOrUndefined(row.embedding),
   metadata |-> ParseOrUndefined(row.metadata),
   tags |-> IF IsSome(row.tags) /\ JsonParse(Val(row.tags)) # <<>>
            THEN ParseOrUndefined(row.tags) ELSE None,
   createdAt |-> row.created_at, updatedAt |-> row.updated_at,
   accessCount |-> row.access_count]

rowToEntry(id, row) ==
  [id |-> id, projectId |-> row.project_id, content |-> row.content,
   type |-> row.type, importance |-> row.importance,
   embedding |-> ParseOrUndefined(row.embedding),
   metadata |-> ParseOrUndefined(row.metadata),
   tags |-> ParseOrUndefined(row.tags),
   createdAt |-> row.created_at, updatedAt |-> row.updated_at,
   accessCount |-> row.access_count]

SqliteGet(T, p, id) ==
  IF id \in DOMAIN T /\ T[id].project_id = p THEN Some(rowToEntry(id, T[id])) ELSE None

SqliteGetCount(T, p) == Cardinality(ProjectRows(T, p))

(* ORDER BY importance ASC, access_count ASC, created_at ASC; rows that    *)
(* agree on all three come in the order of their ids.                      *)
EvictionOrder(T, S) ==
  SortedBy(S, [id \in S |-> <<T[id].importance, T[id].access_count,
                              T[id].created_at, id>>])

SqliteEnforceMemoryLimits(T, p, c, t) ==
  LET count == SqliteGetCount(T, p)
      maxMemories == MaxMemoriesOf(c)
      T1 == IF count > maxMemories
            THEN LET toDelete == count - maxMemories + BatchMargin
                     ids == Range(Take(EvictionOrder(T, ProjectRows(T, p)), toDelete))
                 IN  Restrict(T, DOMAIN T \ ids)
            ELSE T
  IN  IF c.ttlDays # 0
      THEN LET cutoffDate == t - c.ttlDays
           IN  Restrict(T1, {id \in DOMAIN T1 :
                              ~(/\ T1[id].project_id = p
                                /\ T1[id].created_at < cutoffDate
                                /\ T1[id].importance < ExemptImportance)})
      ELSE T1

SqliteStore(T, p, c, entry, id, t) ==
  LET row == [project_id |-> entry.projectId, content |-> entry.content,
              type |-> entry.type, importance |-> entry.importance,
              embedding |-> StringifyOrNull(entry.embedding),
              metadata |-> StringifyOrNull(entry.metadata),
              tags |-> StringifyOrNull(entry.tags),
              created_at |-> t, updated_at |-> t, access_count |-> 0]
  IN  SqliteEnforceMemoryLimits(Put(T, id, row), p, c, t)

(* A mutation of SqliteUpdate: the tags column is not written. *)
SqliteUpdateKeepsTags(T, p, id, updates, t) ==
  IF id \in DOMAIN T /\ T[id].project_id = p
  THEN [T EXCEPT ![id] =
          [@ EXCEPT
             !.updated_at = t,
             !.content = IF IsSome(updates.content) THEN Val(updates.content) ELSE @,
             !.importance = IF IsSome(updates.importance)
                            THEN Val(updates.importance) ELSE @,
             !.metadata = IF IsSome(updates.metadata)
                          THEN Some(JsonStringify(Val(updates.metadata))) ELSE @]]
  ELSE T

SqliteUpdate(T, p, id, updates, t) ==
  IF id \in DOMAIN T /\ T[id].project_id = p
  THEN [T EXCEPT ![id] =
          [@ EXCEPT
             !.updated_at = t,
             !.content = IF IsSome(updates.content) THEN Val(updates.content) ELSE @,
             !.importance = IF IsSome(updates.importance)
                            THEN Val(updates.importance) ELSE @,
             !.metadata = IF IsSome(updates.metadata)
                          THEN Some(JsonStringify(Val(updates.metadata))) ELSE @,
             !.tags = IF IsSome(updates.tags)
                      THEN Some(JsonStringify(Val(updates.tags))) ELSE @]]
  ELSE T

(* UPDATE ... WHERE id = ?: the statement does not name the project. *)
SqliteIncrementAccess(T, p, id, t) ==
  IF id \in DOMAIN T
  THEN [T EXCEPT ![id] = [@ EXCEPT !.access_count = @ + 1, !.updated_at = t]]
  ELSE T

(* delete as it would be if its statement did not name the project. *)
SqliteDeleteAnyProject(T, p, id) == IF id \in DOMAIN T THEN Drop(T, id) ELSE T

SqliteDelete(T, p, id) ==
  IF id \in DOMAIN T /\ T[id].project_id = p THEN Drop(T, id) ELSE T

SqliteClear(T, p) == Restrict(T, DOMAIN T \ ProjectRows(T, p))

---------------------------------------------------------------------------
(* Strings. *)

(* String.prototype.toLowerCase and the case folding of SQLite's LIKE, on  *)
(* the letters the model uses.                                             *)
LowerChar(ch) ==
  CASE ch = "A" -> "a"
    [] ch = "B" -> "b"
    [] OTHER -> ch

toLowerCase(s) == [i \in DOMAIN s |-> LowerChar(s[i])]

(* String.prototype.includes. *)
includes(text, q) ==
  \E i \in 0..(Len(text) - Len(q)) : SubSeq(text, i + 1, i + Len(q)) = q

(* text LIKE pattern in SQLite: % stands for any run of characters, _ for  *)
(* any one character, letters are compared without case; no escape.        *)
RECURSIVE Like(_, _)
Like(text, pattern) ==
  IF pattern = <<>> THEN text = <<>>
  ELSE IF Head(pattern) = "%"
       THEN Like(text, Tail(pattern)) \/ (text # <<>> /\ Like(Tail(text), pattern))
  ELSE IF text = <<>> THEN FALSE
  ELSE IF Head(pattern) = "_" THEN Like(Tail(text), Tail(pattern))
  ELSE LowerChar(Head(pattern)) = LowerChar(Head(text))
       /\ Like(Tail(text), Tail(pattern))

(* The text JSON.stringify gives for an array of strings: ["a","b"]. *)
RECURSIVE JsonItems(_)
JsonItems(tags) ==
  IF tags = <<>> THEN <<>>
  ELSE <<"\"">> \o Head(tags) \o <<"\"">>
       \o (IF Tail(tags) = <<>> THEN <<>> ELSE <<",">>) \o JsonItems(Tail(tags))

JsonTextOfTags(tags) == <<"[">> \o JsonItems(tags) \o <<"]">>

---------------------------------------------------------------------------
(* Search options: limit, type and minImportance, each possibly absent.    *)

NoOptions == [limit |-> None, type |-> None, minImportance |-> None]

(* options.limit || 10 *)
LimitOf(options) ==
  IF IsSome(options.limit) /\ Val(options.limit) # 0
  THEN Val(options.limit) ELSE DefaultLimit

(* if (options.type) *)
HasType(options) == IsSome(options.type) /\ Val(options.type) # ""

(* if (options.minImportance) *)
HasMinImportance(options) ==
  IsSome(options.minImportance) /\ Val(options.minImportance) # 0

(* LIMIT n: a negative n is no limit. *)
SqlLimit(s, n) == IF n < 0 THEN s ELSE Take(s, n)

---------------------------------------------------------------------------
(* Cosine similarity. For a fixed query vector a, the similarity to b is   *)
(* dot(a,b) / (sqrt(|a|^2) * sqrt(|b|^2)); two similarities to the same a  *)
(* are compared exactly through sign(dot) * dot^2 / |b|^2. The vectors of  *)
(* the model are not zero.                                                 *)

RECURSIVE Dot(_, _)
Dot(a, b) == IF a = <<>> THEN 0 ELSE a[1] * b[1] + Dot(Tail(a), Tail(b))

SignedSquare(x) == IF x < 0 THEN 0 - x * x ELSE x * x

(* cosineSimilarity(a, b1) > cosineSimilarity(a, b2) *)
MoreSimilar(a, b1, b2) ==
  SignedSquare(Dot(a, b1)) * Dot(b2, b2) > SignedSquare(Dot(a, b2)) * Dot(b1, b1)

(* scored.sort((x, y) => y.similarity - x.similarity): a stable sort, by   *)
(* similarity descending. scored is a sequence of [id, vec].               *)
InsertScored(a, sorted, x) ==
  LET before == {i \in DOMAIN sorted : MoreSimilar(a, x.vec, sorted[i].vec)}
      at == IF before = {} THEN Len(sorted) + 1
            ELSE CHOOSE i \in before : \A j \in before : i <= j
  IN  SubSeq(sorted, 1, at - 1) \o <<x>> \o SubSeq(sorted, at, Len(sorted))

(* The sort as it would be if it left the list in the order it was fetched in. *)
SortScoredKeepsOrder(a, scored, sorted) == sorted \o scored

RECURSIVE SortScored(_, _, _)
SortScored(a, scored, sorted) ==
  IF scored = <<>> THEN sorted
  ELSE SortScored(a, Tail(scored), InsertScored(a, sorted, Head(scored)))

---------------------------------------------------------------------------
(* RedisStorage queries. A search returns [db, ret]: the keyspace it       *)
(* leaves and the list it returns.                                         *)

(* A mutation of RedisGetEach: the result of get is pushed untested, null   *)
(* for an id without a record.                                             *)
RECURSIVE RedisGetEachUntested(_, _, _)
RedisGetEachUntested(R, p, ids) ==
  IF ids = <<>> THEN <<>>
  ELSE (IF IsSome(RedisGet(R, p, Head(ids))) THEN RedisGet(R, p, Head(ids))
        ELSE <<[id |-> Head(ids), null |-> TRUE]>>)
       \o RedisGetEachUntested(R, p, Tail(ids))

(* for (const id of ids) { const entry = await this.get(id); if (entry) ... } *)
RECURSIVE RedisGetEach(_, _, _)
RedisGetEach(R, p, ids) ==
  IF ids = <<>> THEN <<>>
  ELSE RedisGet(R, p, Head(ids)) \o RedisGetEach(R, p, Tail(ids))

RedisCandidates(R, p, options, stop) ==
  IF HasType(options)
  THEN ZRevRange(R, indexKey(p, "type", Val(options.type)), 0, stop)
  ELSE ZRevRange(R, indexKey(p, "all", ""), 0, stop)

RECURSIVE RedisKeywordLoop(_, _, _, _, _, _, _, _)
RedisKeywordLoop(R, p, ids, results, limit, queryLower, options, t) ==
  IF ids = <<>> \/ Len(results) >= limit THEN [db |-> R, ret |-> results]
  ELSE LET id == Head(ids)
           got == RedisGet(R, p, id)
       IN  IF ~IsSome(got)
           THEN RedisKeywordLoop(R, p, Tail(ids), results, limit, queryLower, options, t)
           ELSE IF HasMinImportance(options)
                   /\ Val(got).importance < Val(options.minImportance)
           THEN RedisKeywordLoop(R, p, Tail(ids), results, limit, queryLower, options, t)
           ELSE IF includes(toLowerCase(Val(got).content), queryLower)
           THEN RedisKeywordLoop(RedisIncrementAccess(R, p, id, t), p, Tail(ids),
                                 Append(results, Val(got)), limit, queryLower,
                                 options, t)
           ELSE RedisKeywordLoop(R, p, Tail(ids), results, limit, queryLower, options, t)

RedisSearchByKeyword(R, p, query, options, t) ==
  RedisKeywordLoop(R, p, RedisCandidates(R, p, options, KeywordPoolStop), <<>>,
                   LimitOf(options), toLowerCase(query), options, t)

(* The scoring loop: the ids that have an embedding and pass minImportance. *)
RECURSIVE RedisScore(_, _, _, _)
RedisScore(R, p, ids, options) ==
  IF ids = <<>> THEN <<>>
  ELSE LET id == Head(ids)
           rest == RedisScore(R, p, Tail(ids), options)
           got == RedisGet(R, p, id)
       IN  IF embeddingKey(p, id) \notin DOMAIN R.emb THEN rest
           ELSE IF HasMinImportance(options) /\ IsSome(got)
                   /\ Val(got).importance < Val(options.minImportance)
           THEN rest
           ELSE <<[id |-> id, vec |-> JsonParse(R.emb[embeddingKey(p, id)].val)]>>
                \o rest

RECURSIVE RedisResultLoop(_, _, _, _, _)
RedisResultLoop(R, p, scored, results, t) ==
  IF scored = <<>> THEN [db |-> R, ret |-> results]
  ELSE LET id == Head(scored).id
           got == RedisGet(R, p, id)
       IN  IF IsSome(got)
           THEN RedisResultLoop(RedisIncrementAccess(R, p, id, t), p, Tail(scored),
                                Append(results, Val(got)), t)
           ELSE RedisResultLoop(R, p, Tail(scored), results, t)

RedisSearchByEmbedding(R, p, embedding, options, t) ==
  LET ids == RedisCandidates(R, p, options, EmbeddingPoolStop)
      scored == SortScored(embedding, RedisScore(R, p, ids, options), <<>>)
  IN  RedisResultLoop(R, p, Take(scored, LimitOf(options)), <<>>, t)

RedisGetByType(R, p, type, limit) ==
  RedisGetEach(R, p, ZRevRange(R, indexKey(p, "type", type), 0, limit - 1))

(* allIds: a Set keeps the order in which its elements were first added. *)
RECURSIVE AddAll(_, _)
AddAll(acc, ids) ==
  IF ids = <<>> THEN acc
  ELSE AddAll(IF Head(ids) \in Range(acc) THEN acc ELSE Append(acc, Head(ids)),
              Tail(ids))

RECURSIVE RedisTagIds(_, _, _, _, _)
RedisTagIds(R, p, tags, limit, allIds) ==
  IF tags = <<>> THEN allIds
  ELSE RedisTagIds(R, p, Tail(tags), limit,
         AddAll(allIds, ZRevRange(R, indexKey(p, "tag", Head(tags)), 0, limit - 1)))

(* Array.prototype.slice(0, n): a negative n counts from the end. *)
Slice0(s, n) == IF n < 0 THEN Take(s, Len(s) + n) ELSE Take(s, n)

RedisGetByTags(R, p, tags, limit) ==
  RedisGetEach(R, p, Slice0(RedisTagIds(R, p, tags, limit, <<>>), limit))

RedisGetRecent(R, p, limit) ==
  RedisGetEach(R, p, ZRevRange(R, indexKey(p, "recent", ""), 0, limit - 1))

RedisGetImportant(R, p, limit) ==
  RedisGetEach(R, p, ZRevRange(R, indexKey(p, "importance", ""), 0, limit - 1))

---------------------------------------------------------------------------
(* SqliteStorage queries. Rows that agree on every ORDER BY term come in   *)
(* the order of their ids.                                                 *)

RowsToEntries(T, ids) == [i \in DOMAIN ids |-> rowToEntry(ids[i], T[ids[i]])]

(* A mutation of SqliteIncrementEach: only the first row is counted. *)
SqliteIncrementFirst(T, p, ids, t) ==
  IF ids = <<>> THEN T ELSE SqliteIncrementAccess(T, p, Head(ids), t)

RECURSIVE SqliteIncrementEach(_, _, _, _)
SqliteIncrementEach(T, p, ids, t) ==
  IF ids = <<>> THEN T
  ELSE SqliteIncrementEach(SqliteIncrementAccess(T, p, Head(ids), t), p, Tail(ids), t)

(* AND type = ? AND importance >= ?, each present when the option is. *)
SqliteFilter(T, id, options) ==
  /\ HasType(options) => T[id].type = Val(options.type)
  /\ HasMinImportance(options) => T[id].importance >= Val(options.minImportance)

SqliteSearchByKeyword(T, p, query, options, t) ==
  LET S == {id \in ProjectRows(T, p) :
              /\ Like(T[id].content, <<"%">> \o query \o <<"%">>)
              /\ SqliteFilter(T, id, options)}
      ordered == SortedBy(S, [id \in S |-> <<0 - T[id].importance,
                                0 - T[id].access_count, 0 - T[id].created_at, id>>])
      rows == SqlLimit(ordered, LimitOf(options))
  IN  [db |-> SqliteIncrementEach(T, p, rows, t), ret |-> RowsToEntries(T, rows)]

SqliteSearchByEmbedding(T, p, embedding, options, t) ==
  LET S == {id \in ProjectRows(T, p) :
              IsSome(T[id].embedding) /\ SqliteFilter(T, id, options)}
      ordered == SortedBy(S, [id \in S |-> <<0 - T[id].importance,
                                             0 - T[id].access_count, id>>])
      rows == SqlLimit(ordered, SqliteEmbeddingPool)
      scored == SortScored(embedding,
                  [i \in DOMAIN rows |->
                     [id |-> rows[i], vec |-> JsonParse(Val(T[rows[i]].embedding))]],
                  <<>>)
      top == Take(scored, LimitOf(options))
      topIds == [i \in DOMAIN top |-> top[i].id]
  IN  [db |-> SqliteIncrementEach(T, p, topIds, t), ret |-> RowsToEntries(T, topIds)]

(* ORDER BY importance DESC, created_at DESC *)
ByImportanceThenRecent(T, S) ==
  SortedBy(S, [id \in S |-> <<0 - T[id].importance, 0 - T[id].created_at, id>>])

SqliteGetByType(T, p, type, limit) ==
  LET S == {id \in ProjectRows(T, p) : T[id].type = type}
  IN  RowsToEntries(T, SqlLimit(ByImportanceThenRecent(T, S), limit))

(* tags LIKE '%"tag"%' OR ...: a NULL column matches nothing. *)
SqliteGetByTags(T, p, tags, limit) ==
  LET S == {id \in ProjectRows(T, p) :
              /\ IsSome(T[id].tags)
              /\ \E i \in DOMAIN tags :
                   Like(JsonTextOfTags(JsonParse(Val(T[id].tags))),
                        <<"%", "\"">> \o tags[i] \o <<"\"", "%">>)}
  IN  RowsToEntries(T, SqlLimit(ByImportanceThenRecent(T, S), limit))

SqliteGetRecent(T, p, limit) ==
  LET S == ProjectRows(T, p)
  IN  RowsToEntries(T, SqlLimit(
        SortedBy(S, [id \in S |-> <<0 - T[id].created_at, id>>]), limit))

SqliteGetImportant(T, p, limit) ==
  LET S == ProjectRows(T, p)
  IN  RowsToEntries(T, SqlLimit(
        SortedBy(S, [id \in S |-> <<0 - T[id].importance,
                                    0 - T[id].access_count, id>>]), limit))

---------------------------------------------------------------------------
(* The backend in use, seen through the MemoryStorage interface. *)

IsRedis == cfg.backend = "redis"

Get(p, id) == IF IsRedis THEN RedisGet(redis, p, id) ELSE SqliteGet(sqlite, p, id)

GetCount(p) == IF IsRedis THEN RedisGetCount(redis, p) ELSE SqliteGetCount(sqlite, p)

GetByType(p, type, limit) ==
  IF IsRedis THEN RedisGetByType(redis, p, type, limit)
  ELSE SqliteGetByType(sqlite, p, type, limit)

GetByTags(p, tags, limit) ==
  IF IsRedis THEN RedisGetByTags(redis, p, tags, limit)
  ELSE SqliteGetByTags(sqlite, p, tags, limit)

GetRecent(p, limit) ==
  IF IsRedis THEN RedisGetRecent(redis, p, limit) ELSE SqliteGetRecent(sqlite, p, limit)

GetImportant(p, limit) ==
  IF IsRedis THEN RedisGetImportant(redis, p, limit)
  ELSE SqliteGetImportant(sqlite, p, limit)

(* What a search would return and leave, from the current state. *)
KeywordSearch(p, query, options) ==
  IF IsRedis THEN RedisSearchByKeyword(redis, p, query, options, now)
  ELSE SqliteSearchByKeyword(sqlite, p, query, options, now)

EmbeddingSearch(p, embedding, options) ==
  IF IsRedis THEN RedisSearchByEmbedding(redis, p, embedding, options, now)
  ELSE SqliteSearchByEmbedding(sqlite, p, embedding, options, now)

(* The ids of the entries in a returned list. *)
IdsOf(entries) == {entries[i].id : i \in DOMAIN entries}

(* The ids get finds in project p, and the entry it returns. *)
LiveIds(p) == {id \in usedIds : IsSome(Get(p, id))}

Entry(p, id) == Val(Get(p, id))

---------------------------------------------------------------------------
(* The record of the last call. *)

NoUpdates == [content |-> None, importance |-> None, metadata |-> None, tags |-> None]

Call(op, p) ==
  [op |-> op, proj |-> p, id |-> 0, entry |-> None, updates |-> NoUpdates,
   query |-> <<>>, options |-> NoOptions, ret |-> <<>>, found |-> FALSE, countBefore |-> 0]

(* The database the backend leaves: one of the two stores changes. *)
Leaves(db) ==
  IF IsRedis THEN redis' = db /\ UNCHANGED sqlite
  ELSE sqlite' = db /\ UNCHANGED redis

---------------------------------------------------------------------------
(* Operations. p is the project the backend is bound to. The counters of   *)
(* the model are capped: accessCount by MaxAccess, the clock by             *)
(* cfg.maxTime, the uuids by cfg.ids.                                       *)

(* The access count of the record with this id, in whatever project. *)
AccessCountOf(id) ==
  IF IsRedis
  THEN LET ks == {k \in DOMAIN redis.entry : k[2] = id}
       IN  IF ks = {} THEN 0
           ELSE JsonParse(redis.entry[CHOOSE k \in ks : TRUE].val).accessCount
  ELSE IF id \in DOMAIN sqlite THEN sqlite[id].access_count ELSE 0

(* A fresh uuid: an id not used before. With cfg.uuids = "ascending" the   *)
(* run is one in which later uuids sort after earlier ones; with "any" a    *)
(* uuid may sort anywhere.                                                  *)
Fresh(id) ==
  /\ id \in cfg.ids \ usedIds
  /\ cfg.uuids = "ascending" => \A j \in cfg.ids \ usedIds : id <= j

(* ProjectMemory.store: the entry the facade hands to the backend it is    *)
(* bound to; an importance the caller leaves out is 0.5.                   *)
FacadeEntry(p, input) ==
  [projectId |-> p, content |-> input.content, type |-> input.type,
   importance |-> IF IsSome(input.importance) THEN Val(input.importance)
                  ELSE DefaultImportance,
   embedding |-> input.embedding, metadata |-> input.metadata, tags |-> input.tags]

(* store(entry) -> id. *)
Store(p, input, id) ==
  /\ Fresh(id)
  /\ usedIds' = usedIds \cup {id}
  /\ LET entry == FacadeEntry(p, input)
     IN  /\ Leaves(IF IsRedis THEN RedisStore(redis, p, cfg, entry, id, now)
                   ELSE SqliteStore(sqlite, p, cfg, entry, id, now))
         /\ last' = [Call("store", p) EXCEPT !.id = id, !.entry = Some(entry),
                                              !.countBefore = GetCount(p)]
  /\ UNCHANGED <<cfg, now>>

Update(p, id, updates) ==
  /\ Leaves(IF IsRedis THEN RedisUpdate(redis, p, id, updates, now)
            ELSE SqliteUpdate(sqlite, p, id, updates, now))
  /\ last' = [Call("update", p) EXCEPT !.id = id, !.updates = updates,
                                        !.found = IsSome(Get(p, id)),
                                        !.countBefore = GetCount(p)]
  /\ UNCHANGED <<cfg, now, usedIds>>

IncrementAccess(p, id) ==
  /\ AccessCountOf(id) < MaxAccess
  /\ Leaves(IF IsRedis THEN RedisIncrementAccess(redis, p, id, now)
            ELSE SqliteIncrementAccess(sqlite, p, id, now))
  /\ last' = [Call("incrementAccess", p) EXCEPT !.id = id,
                                                 !.found = IsSome(Get(p, id)),
                                                 !.countBefore = GetCount(p)]
  /\ UNCHANGED <<cfg, now, usedIds>>

Delete(p, id) ==
  /\ Leaves(IF IsRedis THEN RedisDelete(redis, p, id) ELSE SqliteDelete(sqlite, p, id))
  /\ last' = [Call("delete", p) EXCEPT !.id = id, !.found = IsSome(Get(p, id)),
                                        !.countBefore = GetCount(p)]
  /\ UNCHANGED <<cfg, now, usedIds>>

Clear(p) ==
  /\ Leaves(IF IsRedis THEN RedisClear(redis, p) ELSE SqliteClear(sqlite, p))
  /\ last' = [Call("clear", p) EXCEPT !.countBefore = GetCount(p)]
  /\ UNCHANGED <<cfg, now, usedIds>>

SearchByKeyword(p, query, options) ==
  LET r == KeywordSearch(p, query, options)
  IN  /\ \A i \in DOMAIN r.ret : r.ret[i].accessCount < MaxAccess
      /\ Leaves(r.db)
      /\ last' = [Call("searchByKeyword", p) EXCEPT !.query = query,
                    !.options = options, !.ret = r.ret, !.countBefore = GetCount(p)]
      /\ UNCHANGED <<cfg, now, usedIds>>

SearchByEmbedding(p, embedding, options) ==
  LET r == EmbeddingSearch(p, embedding, options)
  IN  /\ \A i \in DOMAIN r.ret : r.ret[i].accessCount < MaxAccess
      /\ Leaves(r.db)
      /\ last' = [Call("searchByEmbedding", p) EXCEPT !.query = embedding,
                    !.options = options, !.ret = r.ret, !.countBefore = GetCount(p)]
      /\ UNCHANGED <<cfg, now, usedIds>>

(* A day passes: the Redis keys whose expiry has come are gone. *)
Tick ==
  /\ now < cfg.maxTime
  /\ now' = now + 1
  /\ redis' = RedisExpire(redis, now + 1)
  /\ last' = Call("tick", "")
  /\ UNCHANGED <<cfg, usedIds, sqlite>>

---------------------------------------------------------------------------
(* Inputs. *)

Input(content, type, importance, embedding, metadata, tags) ==
  [content |-> content, type |-> type, importance |-> importance,
   embedding |-> embedding, metadata |-> metadata, tags |-> tags]

Query(query, limit, type, minImportance) ==
  [query |-> query,
   options |-> [limit |-> limit, type |-> type, minImportance |-> minImportance]]

TagAuth == <<"a", "u">>

TagSecurity == <<"s", "e">>

(* The state after construction: an empty database. *)
Start(c) ==
  /\ cfg = c
  /\ now = 0
  /\ usedIds = {}
  /\ sqlite = EmptyTable
  /\ redis = EmptyRedis
  /\ last = Call("create", "")

(* Every operation, with its arguments drawn from the sets of cfg. *)
Next ==
  \/ \E p \in cfg.projects, input \in cfg.inputs, id \in cfg.ids :
       Store(p, input, id)
  \/ \E p \in cfg.projects, id \in cfg.ids, u \in cfg.updates : Update(p, id, u)
  \/ \E p \in cfg.projects, id \in cfg.ids : IncrementAccess(p, id)
  \/ \E p \in cfg.projects, id \in cfg.ids : Delete(p, id)
  \/ \E p \in cfg.projects : Clear(p)
  \/ \E p \in cfg.projects, q \in cfg.queries :
       SearchByKeyword(p, q.query, q.options)
  \/ \E p \in cfg.projects, q \in cfg.vectors :
       SearchByEmbedding(p, q.query, q.options)
  \/ Tick

---------------------------------------------------------------------------
(* Spec: one project, on either backend; entries with and without tags,    *)
(* metadata and embedding; a limit of one or two memories; a retention     *)
(* window of one day, and one day passing.                                 *)

Entries ==
  {Input(<<"a", "b">>, "context", None, None, None, None),
   Input(<<"A">>, "decision", Some(90), Some(<<1, 0>>), Some({}), Some(<<>>)),
   Input(<<"b">>, "context", Some(30), Some(<<0, 1>>), Some({<<"k", "v">>}),
         Some(<<TagAuth, TagSecurity>>))}

Updates ==
  {[NoUpdates EXCEPT !.tags = Some(<<TagSecurity>>)],
   [NoUpdates EXCEPT !.importance = Some(90), !.content = Some(<<"b">>)]}

Config(backend, maxMemories) ==
  [backend |-> backend, maxMemories |-> Some(maxMemories), ttlDays |-> 1,
   maxTime |-> 1, projects |-> {"P"}, ids |-> 1..MaxIds, uuids |-> "ascending",
   inputs |-> Entries, updates |-> Updates,
   queries |-> {Query(<<"a">>, None, None, None), Query(<<"_">>, Some(1), None, None)},
   vectors |-> {Query(<<1, 0>>, Some(1), None, None)}]

Init ==
  \E backend \in {"redis", "sqlite"}, maxMemories \in {1, 2} :
    Start(Config(backend, maxMemories))

Spec == Init /\ [][Next]_vars

---------------------------------------------------------------------------
(* SpecCount and SpecUpdate: as Spec, with the default limit of memories,  *)
(* which the run does not reach. SpecCount has the operations that return  *)
(* or count entries, SpecUpdate those that write the fields of an entry.   *)

UnlimitedEntries ==
  {Input(<<"A">>, "decision", Some(90), Some(<<1, 0>>), None, None),
   Input(<<"b">>, "context", Some(30), Some(<<0, 1>>), Some({<<"k", "v">>}),
         Some(<<TagAuth, TagSecurity>>))}

UnlimitedConfig(backend) ==
  [Config(backend, 1) EXCEPT
     !.maxMemories = None, !.inputs = UnlimitedEntries,
     !.queries = {Query(<<"b">>, None, None, None)},
     !.vectors = {Query(<<1, 0>>, None, None, None)}]

InitUnlimited == \E backend \in {"redis", "sqlite"} : Start(UnlimitedConfig(backend))

NextCount ==
  \/ \E p \in cfg.projects, input \in cfg.inputs, id \in cfg.ids :
       Store(p, input, id)
  \/ \E p \in cfg.projects, id \in cfg.ids : IncrementAccess(p, id)
  \/ \E p \in cfg.projects, id \in cfg.ids : Delete(p, id)
  \/ \E p \in cfg.projects : Clear(p)
  \/ \E p \in cfg.projects, q \in cfg.queries :
       SearchByKeyword(p, q.query, q.options)
  \/ \E p \in cfg.projects, q \in cfg.vectors :
       SearchByEmbedding(p, q.query, q.options)
  \/ Tick

SpecCount == InitUnlimited /\ [][NextCount]_vars

NextUpdate ==
  \/ \E p \in cfg.projects, input \in cfg.inputs, id \in cfg.ids :
       Store(p, input, id)
  \/ \E p \in cfg.projects, id \in cfg.ids, u \in cfg.updates : Update(p, id, u)
  \/ \E p \in cfg.projects, id \in cfg.ids : IncrementAccess(p, id)
  \/ Tick

UpdateConfig(backend) ==
  [UnlimitedConfig(backend) EXCEPT
     !.inputs = {Input(<<"b">>, "context", Some(30), Some(<<0, 1>>),
                       Some({<<"k", "v">>}), Some(<<TagAuth, TagSecurity>>))}]

InitUpdate == \E backend \in {"redis", "sqlite"} : Start(UpdateConfig(backend))

SpecUpdate == InitUpdate /\ [][NextUpdate]_vars

---------------------------------------------------------------------------
(* SpecClamp: as Spec, with importances outside [0,1] given to store and   *)
(* to update.                                                              *)

ClampEntries ==
  {Input(<<"a">>, "context", Some(150), Some(<<1, 0>>), None, None),
   Input(<<"a">>, "context", Some(0 - 30), None, None, Some(<<TagAuth>>)),
   Input(<<"a">>, "context", None, None, None, None)}

ClampUpdates ==
  {[NoUpdates EXCEPT !.importance = Some(150)],
   [NoUpdates EXCEPT !.importance = Some(0 - 30)]}

ClampConfig(backend) ==
  [Config(backend, MaxIds) EXCEPT !.inputs = ClampEntries, !.updates = ClampUpdates]

InitClamp == \E backend \in {"redis", "sqlite"} : Start(ClampConfig(backend))

SpecClamp == InitClamp /\ [][Next]_vars

---------------------------------------------------------------------------
(* SpecEvict: a limit of EvictMaxMemories memories, and EvictStores stores *)
(* into an empty project, each of an importance above the one before.      *)

EvictMaxMemories == 10

EvictStores == 15

EvictEntries ==
  {Input(<<"a">>, "context", Some(i), None, None, None) : i \in 1..(EvictStores + 1)}

EvictConfig(backend) ==
  [Config(backend, EvictMaxMemories) EXCEPT !.ids = 1..EvictStores,
                                            !.inputs = EvictEntries]

InitEvict == \E backend \in {"redis", "sqlite"} : Start(EvictConfig(backend))

StoreIncreasing(p, input, id) ==
  /\ last.op = "store" => Val(input.importance) > Val(last.entry).importance
  /\ Store(p, input, id)

NextEvict ==
  \E p \in cfg.projects, input \in cfg.inputs, id \in cfg.ids :
    StoreIncreasing(p, input, id)

SpecEvict == InitEvict /\ [][NextEvict]_vars

---------------------------------------------------------------------------
(* SpecBig: a limit of BatchMargin + 1 memories, the least limit at which  *)
(* a count eviction can leave an entry in the project.                     *)

BigMaxMemories == BatchMargin + 1

(* The stores made after the project was filled. *)
BigExtra == 1

LowEntry == Input(<<"a">>, "context", Some(30), None, None, None)

HighEntry == Input(<<"b">>, "decision", Some(90), None, None, None)

BigConfig(backend) ==
  [Config(backend, BigMaxMemories) EXCEPT !.ids = 1..(BigMaxMemories + BigExtra),
                                          !.inputs = {LowEntry, HighEntry},
                                          !.updates = {[NoUpdates EXCEPT !.importance = Some(90)]}]

InitBig == \E backend \in {"redis", "sqlite"} : Start(BigConfig(backend))

(* The project is filled when BigMaxMemories entries have been stored. *)
Filled == Cardinality(usedIds) >= BigMaxMemories

(* The ids update and delete are called with: the first entry's, and those *)
(* of the entries stored after the project was filled.                     *)
BigArgIds == {1} \cup (cfg.ids \ (1..BigMaxMemories))

(* The project is filled with LowEntry at time 0; then come stores of      *)
(* HighEntry, updates, deletes, clear and the passing of a day.            *)
NextBig ==
  \/ \E p \in cfg.projects, id \in cfg.ids : ~Filled /\ Store(p, LowEntry, id)
  \/ \E p \in cfg.projects, id \in cfg.ids : Filled /\ Store(p, HighEntry, id)
  \/ \E p \in cfg.projects, id \in BigArgIds, u \in cfg.updates :
       Filled /\ Update(p, id, u)
  \/ \E p \in cfg.projects, id \in BigArgIds : Filled /\ Delete(p, id)
  \/ \E p \in cfg.projects : Filled /\ Clear(p)
  \/ Filled /\ Tick

SpecBig == InitBig /\ [][NextBig]_vars

---------------------------------------------------------------------------
(* SpecExpiry: two entries that differ in importance alone, 0.9 and 0.3, a *)
(* retention window of one day, MaxTime days passing, and the default      *)
(* limit of memories, which no run of the model reaches.                   *)

ExpiryEntries ==
  {Input(<<"a">>, "context", Some(90), Some(<<1, 0>>), None, None),
   Input(<<"a">>, "context", Some(30), Some(<<1, 0>>), None, None)}

ExpiryConfig(backend) ==
  [Config(backend, MaxIds) EXCEPT
     !.maxMemories = None, !.maxTime = MaxTime, !.inputs = ExpiryEntries,
     !.updates = {[NoUpdates EXCEPT !.content = Some(<<"b">>)]},
     !.queries = {Query(<<"a">>, None, None, None)}]

InitExpiry == \E backend \in {"redis", "sqlite"} : Start(ExpiryConfig(backend))

SpecExpiry == InitExpiry /\ [][Next]_vars

---------------------------------------------------------------------------
(* SpecShared: two projects in one SQLite file or one Redis instance, a    *)
(* backend bound to each; every operation is called on either backend with *)
(* any id, the ids of the other project's entries among them. The limit   *)
(* is one memory, so that a second store in a project evicts.              *)

SharedEntries ==
  {Input(<<"a">>, "context", Some(30), Some(<<1, 0>>), None, Some(<<TagAuth>>))}

SharedConfig(backend) ==
  [Config(backend, 1) EXCEPT
     !.projects = {"P", "Q"}, !.ids = 1..(MaxIds + 1), !.inputs = SharedEntries,
     !.updates = {[NoUpdates EXCEPT !.importance = Some(90),
                                    !.tags = Some(<<TagSecurity>>)]},
     !.queries = {Query(<<"a">>, None, None, None)}]

InitShared == \E backend \in {"redis", "sqlite"} : Start(SharedConfig(backend))

SpecShared == InitShared /\ [][Next]_vars

---------------------------------------------------------------------------
(* SpecVector: entries with the embeddings [1,0] and [0,1] and one without *)
(* an embedding, the entry of [0,1] being the most important; the default  *)
(* limit of memories.                                                      *)

VectorEntries ==
  {Input(<<"a">>, "context", Some(30), Some(<<1, 0>>), None, None),
   Input(<<"a">>, "context", Some(90), Some(<<0, 1>>), None, None),
   Input(<<"a">>, "decision", None, None, None, None)}

VectorConfig(backend) ==
  [Config(backend, MaxIds) EXCEPT
     !.maxMemories = None, !.ids = 1..(MaxIds + 1), !.inputs = VectorEntries,
     !.updates = {[NoUpdates EXCEPT !.importance = Some(10)]},
     !.queries = {Query(<<"a">>, Some(1), None, None)},
     !.vectors = {Query(<<1, 0>>, None, None, None),
                  Query(<<0 - 1, 2>>, Some(1), Some("context"), Some(50))}]

InitVector == \E backend \in {"redis", "sqlite"} : Start(VectorConfig(backend))

(* store, delete, searchByEmbedding and the passing of a day. *)
NextVector ==
  \/ \E p \in cfg.projects, input \in cfg.inputs, id \in cfg.ids :
       Store(p, input, id)
  \/ \E p \in cfg.projects, id \in cfg.ids : Delete(p, id)
  \/ \E p \in cfg.projects, q \in cfg.vectors :
       SearchByEmbedding(p, q.query, q.options)
  \/ Tick

SpecVector == InitVector /\ [][NextVector]_vars

---------------------------------------------------------------------------
(* ProjectMemory with an embedding provider. cfg.provider tells whether a  *)
(* provider is bound. The provider is outside the program: what embedQuery *)
(* does is an input of the call, None when it throws and Some(v) when it   *)
(* returns the vector v.                                                   *)

ContextSearchLimit == 5

ContextImportantLimit == 3

EmbedOutcomes == {None} \cup {Some(v) : v \in cfg.embedVectors}

(* A call record of the facade: the provider's outcome and whether the     *)
(* call raised.                                                            *)
FacadeCall(op, p, outcome, raised) ==
  Call(op, p) @@ [outcome |-> outcome, raised |-> raised, via |-> "",
                  relevant |-> <<>>, important |-> <<>>, text |-> <<>>]

(* A mutation of TryEmbed: no catch around embedQuery. *)
TryEmbedUncaught(outcome) ==
  [embedding |-> IF cfg.provider THEN outcome ELSE None,
   raised |-> cfg.provider /\ ~IsSome(outcome)]

(* if (this.embeddings) { try { embedding = await embedQuery(content) }    *)
(* catch { console.warn } }                                                *)
TryEmbed(outcome) ==
  [embedding |-> IF cfg.provider THEN outcome ELSE None, raised |-> FALSE]

(* ProjectMemory.store(content, type, options) -> id, called as op: by     *)
(* the caller under its own name or by one of the per-type helpers. The    *)
(* call record keeps the importance option the caller gave.                *)
ProjectMemoryStoreAs(op, p, input, id, outcome) ==
  LET t == TryEmbed(outcome)
      entry == FacadeEntry(p, [input EXCEPT !.embedding = t.embedding])
  IN  /\ Fresh(id)
      /\ IF t.raised
         THEN /\ UNCHANGED <<usedIds, redis, sqlite>>
              /\ last' = [FacadeCall(op, p, outcome, TRUE)
                            EXCEPT !.countBefore = GetCount(p)]
                         @@ [given |-> input.importance]
         ELSE /\ usedIds' = usedIds \cup {id}
              /\ Leaves(IF IsRedis THEN RedisStore(redis, p, cfg, entry, id, now)
                        ELSE SqliteStore(sqlite, p, cfg, entry, id, now))
              /\ last' = [FacadeCall(op, p, outcome, FALSE)
                            EXCEPT !.id = id, !.entry = Some(entry),
                                   !.countBefore = GetCount(p)]
                         @@ [given |-> input.importance]
      /\ UNCHANGED <<cfg, now>>

ProjectMemoryStore(p, input, id, outcome) ==
  ProjectMemoryStoreAs("ProjectMemory.store", p, input, id, outcome)

(* A mutation of FacadeSearch: no fallback, the failure of embedQuery      *)
(* reaches the caller.                                                     *)
FacadeSearchNoFallback(p, query, options, outcome) ==
  IF cfg.provider
  THEN IF IsSome(outcome)
       THEN EmbeddingSearch(p, Val(outcome), options)
              @@ [via |-> "embedding", raised |-> FALSE]
       ELSE [db |-> IF IsRedis THEN redis ELSE sqlite, ret |-> <<>>,
             via |-> "", raised |-> TRUE]
  ELSE KeywordSearch(p, query, options) @@ [via |-> "keyword", raised |-> FALSE]

(* ProjectMemory.search(query, options): the database it leaves, what it   *)
(* returns, and the backend operation it went through.                     *)
FacadeSearch(p, query, options, outcome) ==
  IF cfg.provider /\ IsSome(outcome)
  THEN EmbeddingSearch(p, Val(outcome), options)
         @@ [via |-> "embedding", raised |-> FALSE]
  ELSE KeywordSearch(p, query, options) @@ [via |-> "keyword", raised |-> FALSE]

ProjectMemorySearch(p, query, options, outcome) ==
  LET r == FacadeSearch(p, query, options, outcome)
  IN  /\ \A i \in DOMAIN r.ret : r.ret[i].accessCount < MaxAccess
      /\ Leaves(r.db)
      /\ last' = [FacadeCall("ProjectMemory.search", p, outcome, r.raised)
                    EXCEPT !.query = query, !.options = options, !.ret = r.ret,
                           !.via = r.via, !.countBefore = GetCount(p)]
      /\ UNCHANGED <<cfg, now, usedIds>>

(* A mutation of Deduplicate: every memory is kept. *)
KeepDuplicates(mems, seen, allMemories) == allMemories \o mems

(* for (const mem of [...relevantMemories, ...importantMemories])          *)
(*   if (!seen.has(mem.id)) { seen.add(mem.id); allMemories.push(mem) }    *)
RECURSIVE Deduplicate(_, _, _)
Deduplicate(mems, seen, allMemories) ==
  IF mems = <<>> THEN allMemories
  ELSE IF Head(mems).id \in seen THEN Deduplicate(Tail(mems), seen, allMemories)
  ELSE Deduplicate(Tail(mems), seen \cup {Head(mems).id},
                   Append(allMemories, Head(mems)))

(* `- [${mem.type}]${tags} ${mem.content}`: a line of the context, as its  *)
(* parts; the tags are left out when absent or empty.                      *)
ContextLine(mem) ==
  [type |-> mem.type,
   tags |-> IF IsSome(mem.tags) /\ Len(Val(mem.tags)) # 0 THEN Val(mem.tags) ELSE <<>>,
   content |-> mem.content]

(* The composed context as its lines, the heading first; <<>> is "". *)
ContextText(p, allMemories) ==
  IF Len(allMemories) = 0 THEN <<>>
  ELSE <<[heading |-> p]>> \o [i \in DOMAIN allMemories |-> ContextLine(allMemories[i])]

(* ProjectMemory.getContextForQuery(query) *)
GetContextForQuery(p, query, outcome) ==
  LET r == FacadeSearch(p, query,
             [NoOptions EXCEPT !.limit = Some(ContextSearchLimit)], outcome)
      importantMemories ==
        IF IsRedis THEN RedisGetImportant(r.db, p, ContextImportantLimit)
        ELSE SqliteGetImportant(r.db, p, ContextImportantLimit)
      allMemories == Deduplicate(r.ret \o importantMemories, {}, <<>>)
  IN  /\ \A i \in DOMAIN r.ret : r.ret[i].accessCount < MaxAccess
      /\ Leaves(r.db)
      /\ last' = [FacadeCall("getContextForQuery", p, outcome, r.raised)
                    EXCEPT !.query = query, !.ret = allMemories, !.via = r.via,
                           !.relevant = r.ret, !.important = importantMemories,
                           !.text = ContextText(p, allMemories),
                           !.countBefore = GetCount(p)]
      /\ UNCHANGED <<cfg, now, usedIds>>

---------------------------------------------------------------------------
(* SpecFacade: the facade with and without a provider, whose embedQuery    *)
(* fails or returns one of two vectors; a limit of one memory or none.     *)

FacadeEntries ==
  {Input(<<"a">>, "context", Some(30), None, None, Some(<<TagAuth>>)),
   Input(<<"a", "b">>, "decision", Some(90), None, None, None)}

FacadeConfig(backend, maxMemories, provider) ==
  [Config(backend, 1) EXCEPT
     !.maxMemories = maxMemories, !.inputs = FacadeEntries,
     !.queries = {Query(<<"a">>, None, None, None)}]
    @@ [provider |-> provider, embedVectors |-> {<<1, 0>>, <<0, 1>>}]

InitFacade ==
  \E backend \in {"redis", "sqlite"}, maxMemories \in {None, Some(1)},
     provider \in BOOLEAN :
    Start(FacadeConfig(backend, maxMemories, provider))

NextFacade ==
  \/ \E p \in cfg.projects, input \in cfg.inputs, id \in cfg.ids,
        outcome \in EmbedOutcomes :
       ProjectMemoryStore(p, input, id, outcome)
  \/ \E p \in cfg.projects, q \in cfg.queries, outcome \in EmbedOutcomes :
       ProjectMemorySearch(p, q.query, q.options, outcome)
  \/ \E p \in cfg.projects, id \in cfg.ids : Delete(p, id)
  \/ Tick

SpecFacade == InitFacade /\ [][NextFacade]_vars

---------------------------------------------------------------------------
(* SpecContext: up to ContextStores entries, some near the query and of    *)
(* low importance, some far from it and of high importance, and the        *)
(* context composed for a query whose embedding succeeds or fails.         *)

ContextStores == 8

NearEntry == Input(<<"a">>, "context", Some(30), Some(<<1, 0>>), None, Some(<<TagAuth>>))

FarEntry == Input(<<"b">>, "decision", Some(90), Some(<<0, 1>>), None, None)

ContextConfig(backend) ==
  [Config(backend, 1) EXCEPT
     !.maxMemories = None, !.ids = 1..ContextStores,
     !.inputs = {NearEntry, FarEntry},
     !.queries = {Query(<<"a">>, None, None, None)}]
    @@ [provider |-> TRUE, embedVectors |-> {<<1, 0>>}]

InitContext == \E backend \in {"redis", "sqlite"} : Start(ContextConfig(backend))

(* The entries are stored in an order of non-decreasing importance. *)
StoreNonDecreasing(p, input, id) ==
  /\ \A i \in LiveIds(p) : Entry(p, i).importance <= Val(input.importance)
  /\ Store(p, input, id)

NextContext ==
  \/ \E p \in cfg.projects, input \in cfg.inputs, id \in cfg.ids :
       StoreNonDecreasing(p, input, id)
  \/ \E p \in cfg.projects, q \in cfg.queries, outcome \in EmbedOutcomes :
       GetContextForQuery(p, q.query, outcome)

SpecContext == InitContext /\ [][NextContext]_vars

---------------------------------------------------------------------------
(* ProjectMemory.create, step by step. cfg.pc is the position in create,   *)
(* cfg.backend the storage type of the facade once it is built. What the   *)
(* Redis client and the file system do is an input of each step.           *)

(* A mutation of RedisUsable: the liveness probe is ignored. *)
RedisUsableIgnoringProbe(isConnected, available) == isConnected

(* if (isConnected && (await redisStorage.isAvailable())) *)
RedisUsable(isConnected, available) == isConnected /\ available

(* RedisStorage.waitForConnection(timeoutMs): true at once when the        *)
(* connected flag is set or the client is ready; otherwise what comes      *)
(* first of the ready event, the error event and the timer.                *)
waitForConnection(connected, status, first) ==
  IF connected THEN TRUE
  ELSE IF status = "ready" THEN TRUE
  ELSE first = "ready"

(* RedisStorage.isAvailable(): whether ping resolved. *)
isAvailable(pingResolved) == IF pingResolved THEN TRUE ELSE FALSE

(* if (fullConfig.redisUrl || fullConfig.redisHost) *)
CreateStart ==
  /\ cfg.pc = "start"
  /\ cfg' = [cfg EXCEPT !.pc = IF cfg.configured THEN "construct" ELSE "sqlite"]
  /\ UNCHANGED <<now, usedIds, sqlite, redis, last>>

(* new RedisStorage(redisConfig), inside the try. *)
CreateConstructRedis(throws) ==
  /\ cfg.pc = "construct"
  /\ cfg' = [cfg EXCEPT !.pc = IF throws THEN "sqlite" ELSE "wait",
                        !.redisThrew = throws]
  /\ UNCHANGED <<now, usedIds, sqlite, redis, last>>

(* const isConnected = await redisStorage.waitForConnection(3000); when it *)
(* is false the probe is not made.                                         *)
CreateWait(connected, status, first) ==
  /\ cfg.pc = "wait"
  /\ LET isConnected == waitForConnection(connected, status, first)
     IN  cfg' = [cfg EXCEPT !.pc = IF isConnected THEN "probe" ELSE "close",
                           !.isConnected = Some(isConnected)]
  /\ UNCHANGED <<now, usedIds, sqlite, redis, last>>

(* await redisStorage.isAvailable(), and the facade on Redis when both     *)
(* hold.                                                                   *)
CreateProbe(pingResolved) ==
  /\ cfg.pc = "probe"
  /\ LET available == isAvailable(pingResolved)
     IN  cfg' = IF RedisUsable(Val(cfg.isConnected), available)
               THEN [cfg EXCEPT !.pc = "bound", !.backend = "redis",
                                !.available = Some(available)]
               ELSE [cfg EXCEPT !.pc = "close", !.available = Some(available)]
  /\ UNCHANGED <<now, usedIds, sqlite, redis, last>>

(* await redisStorage.close(); an exception is caught by the same catch. *)
CreateClose(throws) ==
  /\ cfg.pc = "close"
  /\ cfg' = [cfg EXCEPT !.pc = "sqlite", !.redisThrew = throws]
  /\ UNCHANGED <<now, usedIds, sqlite, redis, last>>

(* new SqliteStorage(sqliteConfig), outside every try: when it throws,     *)
(* create rejects.                                                         *)
CreateConstructSqlite(throws) ==
  /\ cfg.pc = "sqlite"
  /\ cfg' = IF throws THEN [cfg EXCEPT !.pc = "rejected"]
            ELSE [cfg EXCEPT !.pc = "bound", !.backend = "sqlite"]
  /\ UNCHANGED <<now, usedIds, sqlite, redis, last>>

Create ==
  \/ CreateStart
  \/ \E throws \in BOOLEAN : CreateConstructRedis(throws)
  \/ \E connected \in BOOLEAN, status \in {"connecting", "ready"},
        first \in {"ready", "error", "timeout"} :
       CreateWait(connected, status, first)
  \/ \E pingResolved \in BOOLEAN : CreateProbe(pingResolved)
  \/ \E throws \in BOOLEAN : CreateClose(throws)
  \/ \E throws \in BOOLEAN : CreateConstructSqlite(throws)

(* SpecCreate: create with and without Redis parameters, then the facade   *)
(* in use. Every awaited call of create settles.                           *)

CreateConfig(configured) ==
  [Config("none", 1) EXCEPT !.maxMemories = None]
    @@ [pc |-> "start", configured |-> configured, redisThrew |-> FALSE,
        isConnected |-> None, available |-> None]

InitCreate == \E configured \in BOOLEAN : Start(CreateConfig(configured))

NextCreate ==
  \/ Create
  \/ /\ cfg.pc = "bound"
     /\ \E p \in cfg.projects, input \in cfg.inputs, id \in cfg.ids :
          Store(p, input, id)
  \/ /\ cfg.pc = "bound"
     /\ \E p \in cfg.projects, q \in cfg.queries :
          SearchByKeyword(p, q.query, q.options)
  \/ /\ cfg.pc = "bound"
     /\ Tick

SpecCreate == InitCreate /\ [][NextCreate]_vars /\ WF_vars(Create)

---------------------------------------------------------------------------
(* What the claims quantify over. *)

AllTypes ==
  {"context", "architecture", "dependency", "config", "pattern", "decision",
   "todo", "issue"}

TagLists == {<<TagAuth>>, <<TagSecurity>>, <<TagAuth, TagSecurity>>}

Limits == 0..(MaxIds + 1)

(* The keyword queries of the run, and the empty query, which every        *)
(* content contains.                                                       *)
KeywordQueries == cfg.queries \cup {Query(<<>>, None, None, None)}

(* The ids a query or a list operation of project p returns, whatever its  *)
(* arguments.                                                              *)
ReturnedSomewhere(p) ==
  UNION ( {IdsOf(KeywordSearch(p, q.query, q.options).ret) : q \in KeywordQueries}
    \cup {IdsOf(EmbeddingSearch(p, q.query, q.options).ret) : q \in cfg.vectors}
    \cup {IdsOf(GetByType(p, t, n)) : t \in AllTypes, n \in Limits}
    \cup {IdsOf(GetByTags(p, tags, n)) : tags \in TagLists, n \in Limits}
    \cup {IdsOf(GetRecent(p, n)) : n \in Limits}
    \cup {IdsOf(GetImportant(p, n)) : n \in Limits} )

(* The ids in the sorted sets of project p. *)
IndexedIds(p) == UNION {DOMAIN redis.idx[k] : k \in {x \in DOMAIN redis.idx : x[1] = p}}

(* The entry is the one store was given, as get returns it. *)
RoundTrips(entry, id, got) ==
  /\ got.id = id
  /\ got.projectId = entry.projectId
  /\ got.content = entry.content
  /\ got.type = entry.type
  /\ got.importance = entry.importance
  /\ got.embedding = entry.embedding
  /\ got.metadata = entry.metadata
  /\ got.tags = entry.tags
  /\ got.accessCount = 0
  /\ got.createdAt = got.updatedAt

---------------------------------------------------------------------------
(* What get returns for the id of the last call. *)
GotLast == Get(last.proj, last.id)

(* An importance brought into [0,1]. *)
Clamped(x) == Max(0, Min(100, x))

(* C1. Every stored entry has an importance in [0,1], and get(id) after    *)
(* store gives the importance that was supplied, brought into [0,1].       *)
C1_ImportanceClamped ==
  /\ \A p \in cfg.projects : \A id \in LiveIds(p) :
       Entry(p, id).importance \in 0..100
  /\ (last.op = "store" /\ IsSome(Get(last.proj, last.id))) =>
       Entry(last.proj, last.id).importance = Clamped(Val(last.entry).importance)

(* C2. When a store call has completed, getCount() of the project is at    *)
(* most maxMemories.                                                       *)
C2_CountAtMostMax ==
  last.op = "store" => GetCount(last.proj) <= MaxMemoriesOf(cfg)

(* C3. After EvictStores stores of increasing importance into an empty     *)
(* project with maxMemories = EvictMaxMemories, getCount() is              *)
(* EvictMaxMemories and getImportant returns the entries stored last, the  *)
(* EvictMaxMemories of the highest importance.                             *)
C3_HighestRemain ==
  usedIds = 1..EvictStores =>
    \A p \in cfg.projects :
      /\ GetCount(p) = EvictMaxMemories
      /\ IdsOf(GetImportant(p, EvictMaxMemories))
           = (EvictStores - EvictMaxMemories + 1)..EvictStores

(* C4. No store call (with its expiry sweep) and no passing of time (with  *)
(* its TTL expirations) removes an entry of importance >= 0.8, while the   *)
(* count eviction stays out of play; and after a store call no entry of    *)
(* the project is left that is older than ttlDays and of importance < 0.8. *)
C4_ImportantOutliveTtl ==
  [][last'.op \in {"store", "tick"} =>
       \A p \in cfg.projects :
         /\ \A id \in LiveIds(p) :
              Entry(p, id).importance >= ExemptImportance => id \in LiveIds(p)'
         /\ last'.op = "store" =>
              \A id \in LiveIds(p)' :
                Entry(p, id)'.createdAt < now' - cfg.ttlDays
                  => Entry(p, id)'.importance >= ExemptImportance]_vars

(* C5. An operation called on the backend bound to one project returns no  *)
(* entry of another project and leaves the entries of every other project  *)
(* as they were.                                                           *)
C5_ProjectsIsolated ==
  [][last'.op # "tick" =>
       /\ \A i \in DOMAIN last'.ret : last'.ret[i].projectId = last'.proj
       /\ \A q \in cfg.projects \ {last'.proj} : \A id \in cfg.ids :
            Get(q, id)' = Get(q, id)]_vars

---------------------------------------------------------------------------
(* C6. After delete(id) of a live entry: get(id) returns null, no search   *)
(* and no list operation returns the entry, getCount() is one less than    *)
(* before, and in Redis the id is in no sorted set of the project.         *)
C6_DeleteRemovesEntry ==
  (last.op = "delete" /\ last.found) =>
    /\ Get(last.proj, last.id) = None
    /\ GetCount(last.proj) = last.countBefore - 1
    /\ last.id \notin ReturnedSomewhere(last.proj)
    /\ IsRedis => last.id \notin IndexedIds(last.proj)

(* A live entry was deleted while another entry of the project stays. *)
C6_Witness == last.op = "delete" /\ last.found /\ last.countBefore = 2

---------------------------------------------------------------------------
(* C7. get(id) returns null for an id that was never stored, for an id     *)
(* that delete was just called with, and in every project but the one the  *)
(* entry belongs to; update(id, ...) and delete(id) on an id for which     *)
(* get(id) returns null leave every record and every index as they were.   *)
C7_AbsentIdIsNoOp ==
  [][/\ \A p \in cfg.projects : \A id \in cfg.ids \ usedIds' : Get(p, id)' = None
     /\ last'.op = "delete" => GotLast' = None
     /\ \A p, q \in cfg.projects : \A id \in cfg.ids :
          (p # q /\ IsSome(Get(q, id)')) => Get(p, id)' = None
     /\ (last'.op \in {"update", "delete"} /\ ~last'.found)
          => UNCHANGED <<redis, sqlite>>]_vars

(* delete was called with the id of a live entry of the other project. *)
C7_Witness ==
  /\ last.op = "delete"
  /\ ~last.found
  /\ \E q \in cfg.projects \ {last.proj} : IsSome(Get(q, last.id))

---------------------------------------------------------------------------
---------------------------------------------------------------------------
(* Keyword search, as the claims state it. *)

(* The query occurs in the content, letters compared without case and      *)
(* every other character literally.                                        *)
ContainsLiterally(content, query) == includes(toLowerCase(content), toLowerCase(query))

PassesFilters(entry, options) ==
  /\ HasType(options) => entry.type = Val(options.type)
  /\ HasMinImportance(options) => entry.importance >= Val(options.minImportance)

(* The live entries of project p that a keyword search is to return. *)
Matching(p, query, options) ==
  {id \in cfg.ids :
     /\ IsSome(Get(p, id))
     /\ ContainsLiterally(Val(Get(p, id)).content, query)
     /\ PassesFilters(Val(Get(p, id)), options)}

Rank(entry) == <<entry.importance, entry.accessCount, entry.createdAt>>

(* C9. searchByKeyword returns an entry only if the query occurs in its    *)
(* content as a literal substring without regard to case, and when fewer   *)
(* than limit entries match it returns every matching entry.               *)
C9_KeywordIsLiteralSubstring ==
  [][last'.op = "searchByKeyword" =>
       LET matching == Matching(last'.proj, last'.query, last'.options)
       IN  /\ \A i \in DOMAIN last'.ret :
                ContainsLiterally(last'.ret[i].content, last'.query)
           /\ Cardinality(matching) < LimitOf(last'.options)
                => matching \subseteq IdsOf(last'.ret)]_vars

(* C10. The list searchByKeyword returns is in the order importance        *)
(* descending, accessCount descending, createdAt descending, and no        *)
(* matching entry left out ranks above a returned one.                     *)
C10_KeywordOrder ==
  [][last'.op = "searchByKeyword" =>
       LET ret == last'.ret
           matching == Matching(last'.proj, last'.query, last'.options)
       IN  /\ \A i, j \in DOMAIN ret : i < j => ~LexLess(Rank(ret[i]), Rank(ret[j]))
           /\ \A id \in matching \ IdsOf(ret) : \A i \in DOMAIN ret :
                ~LexLess(Rank(ret[i]), Rank(Val(Get(last'.proj, id))))]_vars

---------------------------------------------------------------------------
(* The live entries of project p that have an embedding and pass the type  *)
(* and minImportance filters of the options.                               *)
WithEmbedding(p, options) ==
  {id \in LiveIds(p) : IsSome(Entry(p, id).embedding)
                       /\ PassesFilters(Entry(p, id), options)}

(* C11. searchByEmbedding(v, options) returns only entries that have an    *)
(* embedding, in an order of non-increasing cosine similarity to v, and    *)
(* all of the matching entries with an embedding when they are no more     *)
(* than the limit; so with a query [1,0] the entry of [1,0] comes strictly *)
(* before the entry of [0,1]. Vectors are non-zero and of one dimension.   *)
C11_EmbeddingOrder ==
  [][last'.op = "searchByEmbedding" =>
       LET ret == last'.ret
           v == last'.query
       IN  /\ \A i \in DOMAIN ret : IsSome(ret[i].embedding)
           /\ \A i, j \in DOMAIN ret :
                i < j => ~MoreSimilar(v, Val(ret[j].embedding), Val(ret[i].embedding))
           /\ Cardinality(WithEmbedding(last'.proj, last'.options))
                <= LimitOf(last'.options)
                => WithEmbedding(last'.proj, last'.options) \subseteq IdsOf(ret)]_vars

(* A query [1,0] returned the entry of [1,0] and then the entry of [0,1],  *)
(* which was stored first, while an entry without embedding is live.       *)
C11_Witness ==
  /\ last.op = "searchByEmbedding"
  /\ last.query = <<1, 0>>
  /\ Len(last.ret) = 2
  /\ last.ret[1].embedding = Some(<<1, 0>>)
  /\ last.ret[2].embedding = Some(<<0, 1>>)
  /\ last.ret[2].id < last.ret[1].id
  /\ \E id \in LiveIds(last.proj) : ~IsSome(Entry(last.proj, id).embedding)

(* The live entries of project p that carry at least one of the tags. *)
Carrying(p, tags) ==
  {id \in LiveIds(p) :
     /\ IsSome(Entry(p, id).tags)
     /\ \E i \in DOMAIN tags : tags[i] \in Range(Val(Entry(p, id).tags))}

(* C12. getByTags(tags, limit) returns every entry of the project that     *)
(* carries at least one of the requested tags, whenever those entries are  *)
(* no more than limit.                                                     *)
C12_TagUnion ==
  \A p \in cfg.projects, tags \in TagLists, limit \in 1..(MaxIds + 1) :
    Cardinality(Carrying(p, tags)) <= limit
      => Carrying(p, tags) \subseteq IdsOf(GetByTags(p, tags, limit))

(* C13. The context of getContextForQuery lists at most 5 entries from     *)
(* search and at most 3 from getImportant, at most 8 in all and no id      *)
(* twice: the search results in their order, then the important entries    *)
(* not among them, one line each under the heading; it is empty exactly    *)
(* when both lists are empty.                                              *)
C13_ContextComposition ==
  [][last'.op = "getContextForQuery" =>
       LET relevant == last'.relevant
           important == last'.important
           listed == last'.ret
           others == SelectSeq(important, LAMBDA mem : mem.id \notin IdsOf(relevant))
       IN  /\ Len(relevant) <= ContextSearchLimit
           /\ Len(important) <= ContextImportantLimit
           /\ Len(listed) <= ContextSearchLimit + ContextImportantLimit
           /\ \A i, j \in DOMAIN listed : i # j => listed[i].id # listed[j].id
           /\ listed = relevant \o others
           /\ (last'.text = <<>>) <=> (relevant = <<>> /\ important = <<>>)
           /\ last'.text # <<>> =>
                /\ Len(last'.text) = Len(listed) + 1
                /\ \A i \in DOMAIN listed : last'.text[i + 1] = ContextLine(listed[i])]_vars

(* A context of five search results and three important entries, some of   *)
(* them among the search results.                                          *)
C13_Witness ==
  /\ last.op = "getContextForQuery"
  /\ Len(last.relevant) = ContextSearchLimit
  /\ Len(last.important) = ContextImportantLimit
  /\ Len(last.ret) > ContextSearchLimit
  /\ Len(last.ret) < ContextSearchLimit + ContextImportantLimit

(* C14. create ends, and unless the construction of the SQLite store       *)
(* threw it ends with a facade on one backend: on Redis exactly when Redis *)
(* parameters are configured and waitForConnection and isAvailable both    *)
(* returned true, on SQLite otherwise; the facade's storage type never     *)
(* changes afterwards.                                                     *)
C14_CreateBinds ==
  /\ <>(cfg.pc \in {"bound", "rejected"})
  /\ [](cfg.pc = "bound" =>
          /\ cfg.backend \in {"redis", "sqlite"}
          /\ cfg.backend = "redis" <=>
               /\ cfg.configured
               /\ cfg.isConnected = Some(TRUE)
               /\ cfg.available = Some(TRUE))
  /\ [][cfg.pc = "bound" => cfg'.pc = "bound" /\ cfg'.backend = cfg.backend]_vars

(* The facade is on SQLite after Redis connected and its probe failed, and *)
(* has stored an entry.                                                    *)
C14_Witness ==
  /\ cfg.pc = "bound"
  /\ cfg.backend = "sqlite"
  /\ cfg.configured
  /\ cfg.isConnected = Some(TRUE)
  /\ cfg.available = Some(FALSE)
  /\ last.op = "store"
  /\ IsSome(Get(last.proj, last.id))

(* C14 as stated: create always ends with a facade. *)
C14_AlwaysBinds == cfg.pc # "rejected"

---------------------------------------------------------------------------
(* The last call was ProjectMemory.store with a provider whose embedQuery  *)
(* failed.                                                                 *)
StoredWithFailedEmbedding ==
  /\ last.op = "ProjectMemory.store"
  /\ cfg.provider
  /\ ~IsSome(last.outcome)

(* A keyword search for the content of the entry returns the entry. *)
FoundByKeyword(p, id) ==
  id \in IdsOf(KeywordSearch(p, Entry(p, id).content, NoOptions).ret)

(* C15 as amended. When embedQuery fails during ProjectMemory.store, store *)
(* does not raise and returns the id of the entry; get(id) then returns    *)
(* either null, and then the count eviction of that store has run, or the  *)
(* entry as given, without an embedding, which a keyword search for its    *)
(* content returns.                                                        *)
C15_StoredWithoutEmbedding ==
  StoredWithFailedEmbedding =>
    /\ ~last.raised
    /\ last.id \in usedIds
    /\ IF IsSome(GotLast)
       THEN /\ RoundTrips(Val(last.entry), last.id, Val(GotLast))
            /\ ~IsSome(Val(GotLast).embedding)
            /\ FoundByKeyword(last.proj, last.id)
       ELSE last.countBefore + 1 > MaxMemoriesOf(cfg)

(* An entry stored while embedQuery failed is live, beside an entry that   *)
(* has an embedding.                                                       *)
C15_Witness ==
  /\ StoredWithFailedEmbedding
  /\ IsSome(GotLast)
  /\ \E id \in LiveIds(last.proj) : IsSome(Entry(last.proj, id).embedding)

(* C15 as stated: the entry is retrievable by get and by keyword search. *)
C15_AlwaysRetrievable ==
  StoredWithFailedEmbedding =>
    /\ ~last.raised
    /\ IsSome(GotLast)
    /\ ~IsSome(Val(GotLast).embedding)
    /\ FoundByKeyword(last.proj, last.id)

---------------------------------------------------------------------------
(* The database of the backend the facade is bound to. *)
Database == IF IsRedis THEN redis ELSE sqlite

(* C16. ProjectMemory.search never raises for a failure of embedQuery: it  *)
(* returns what searchByEmbedding returns for the embedded query when a    *)
(* provider is bound and embedQuery succeeds, and what searchByKeyword     *)
(* returns for the query and the same options when no provider is bound or *)
(* embedQuery fails.                                                       *)
C16_SearchDelegates ==
  [][last'.op = "ProjectMemory.search" =>
       LET byEmbedding == cfg.provider /\ IsSome(last'.outcome)
           r == IF byEmbedding
                THEN EmbeddingSearch(last'.proj, Val(last'.outcome), last'.options)
                ELSE KeywordSearch(last'.proj, last'.query, last'.options)
       IN  /\ ~last'.raised
           /\ last'.via = IF byEmbedding THEN "embedding" ELSE "keyword"
           /\ last'.ret = r.ret
           /\ Database' = r.db]_vars

(* With a provider bound, embedQuery failed and the search returned an     *)
(* entry found by keyword.                                                 *)
C16_Witness ==
  /\ last.op = "ProjectMemory.search"
  /\ cfg.provider
  /\ ~IsSome(last.outcome)
  /\ last.via = "keyword"
  /\ Len(last.ret) > 0

---------------------------------------------------------------------------
(* A record with this id is stored, in whatever project. *)
Stored(id) == \E p \in cfg.projects : IsSome(Get(p, id))

Searches == {"searchByKeyword", "searchByEmbedding"}

(* What the last call added to the access count of the entry: one when it  *)
(* was a search that returned the entry.                                   *)
Surfaced(id) == IF last.op \in Searches /\ id \in IdsOf(last.ret) THEN 1 ELSE 0

(* The access count of the entry of the last call. *)
LastAccessCount == AccessCountOf(last.id)

(* Every entry that the step keeps has its access count raised by what the *)
(* call surfaced; the entries a search returns are kept, and a new entry   *)
(* starts at 0.                                                            *)
CountsSurfacing ==
  /\ \A id \in cfg.ids :
       Stored(id) /\ Stored(id)' => AccessCountOf(id)' = AccessCountOf(id) + Surfaced(id)'
  /\ last'.op \in Searches => \A id \in IdsOf(last'.ret) : Stored(id) /\ Stored(id)'
  /\ last'.op = "store" => LastAccessCount' = 0

(* C17 as amended. One searchByKeyword or searchByEmbedding raises         *)
(* accessCount by exactly 1 for each entry it returns and by 0 for every   *)
(* other entry, a new entry starts at 0, and every operation other than    *)
(* incrementAccess leaves the accessCount of the entries it keeps as it    *)
(* was: an entry's accessCount is the number of search results it appeared *)
(* in plus the number of incrementAccess calls made with its id.           *)
C17_AccessCounted ==
  [][last'.op # "incrementAccess" => CountsSurfacing]_vars

(* A search returned an entry beside a live entry that it did not return. *)
C17_Witness ==
  /\ last.op \in Searches
  /\ Len(last.ret) > 0
  /\ \E id \in LiveIds(last.proj) : id \notin IdsOf(last.ret)
  /\ \A i \in DOMAIN last.ret : AccessCountOf(last.ret[i].id) = last.ret[i].accessCount + 1

(* C17 as stated: accessCount changes only by the searches that return the *)
(* entry.                                                                  *)
C17_OnlySearchesCount == [][CountsSurfacing]_vars

---------------------------------------------------------------------------
(* The read operations as calls. get, getByType, getByTags, getRecent,     *)
(* getImportant and getCount send only GET, ZREVRANGE and ZCARD to Redis   *)
(* and only SELECT to SQLite.                                              *)

(* A mutation of AfterRead: the SQLite reads count an access for each row  *)
(* they return, as the searches do.                                        *)
AfterReadCounting(db, p, entries, t) ==
  IF IsRedis THEN db
  ELSE SqliteIncrementEach(db, p, [i \in DOMAIN entries |-> entries[i].id], t)

(* The database a read operation leaves after returning the entries. *)
AfterRead(db, p, entries, t) == db

Reads == {"get", "getByType", "getByTags", "getRecent", "getImportant", "getCount"}

(* A read operation that returned the entries. *)
Read(op, p, id, entries) ==
  /\ Leaves(AfterRead(Database, p, entries, now))
  /\ last' = [Call(op, p) EXCEPT !.id = id, !.ret = entries,
                                 !.countBefore = GetCount(p)]
  /\ UNCHANGED <<cfg, now, usedIds>>

CallGet(p, id) ==
  Read("get", p, id, IF IsSome(Get(p, id)) THEN <<Entry(p, id)>> ELSE <<>>)

CallGetByType(p, type, limit) == Read("getByType", p, 0, GetByType(p, type, limit))

CallGetByTags(p, tags, limit) == Read("getByTags", p, 0, GetByTags(p, tags, limit))

CallGetRecent(p, limit) == Read("getRecent", p, 0, GetRecent(p, limit))

CallGetImportant(p, limit) == Read("getImportant", p, 0, GetImportant(p, limit))

CallGetCount(p) == Read("getCount", p, 0, <<>>)

(* SpecRead: as Spec without a limit of memories, with the read operations *)
(* between the writes and the searches.                                    *)

ReadEntries ==
  {Input(<<"a">>, "context", Some(30), Some(<<1, 0>>), None, Some(<<TagAuth>>)),
   Input(<<"b">>, "decision", Some(90), None, None, None)}

ReadConfig(backend) ==
  [Config(backend, 1) EXCEPT
     !.maxMemories = None, !.inputs = ReadEntries,
     !.updates = {[NoUpdates EXCEPT !.tags = Some(<<TagSecurity>>)]},
     !.queries = {Query(<<"a">>, None, None, None)}]

InitRead == \E backend \in {"redis", "sqlite"} : Start(ReadConfig(backend))

NextRead ==
  \/ \E p \in cfg.projects, input \in cfg.inputs, id \in cfg.ids :
       Store(p, input, id)
  \/ \E p \in cfg.projects, id \in cfg.ids, u \in cfg.updates : Update(p, id, u)
  \/ \E p \in cfg.projects, q \in cfg.queries :
       SearchByKeyword(p, q.query, q.options)
  \/ \E p \in cfg.projects, id \in cfg.ids : CallGet(p, id)
  \/ \E p \in cfg.projects, type \in {"context", "decision"}, limit \in {1, DefaultLimit} :
       CallGetByType(p, type, limit)
  \/ \E p \in cfg.projects, tags \in TagLists, limit \in {1, DefaultLimit} :
       CallGetByTags(p, tags, limit)
  \/ \E p \in cfg.projects, limit \in {1, DefaultLimit} : CallGetRecent(p, limit)
  \/ \E p \in cfg.projects, limit \in {1, DefaultLimit} : CallGetImportant(p, limit)
  \/ \E p \in cfg.projects : CallGetCount(p)
  \/ Tick

SpecRead == InitRead /\ [][NextRead]_vars

(* C18. get, getByType, getByTags, getRecent, getImportant and getCount    *)
(* leave every record, with its accessCount and updatedAt, and every index *)
(* as they were, on both backends.                                         *)
C18_ReadsChangeNothing ==
  [][last'.op \in Reads => UNCHANGED <<redis, sqlite>>]_vars

(* getImportant returned two entries, one of them surfaced by a search     *)
(* before, and their access counts are what they were.                     *)
C18_Witness ==
  /\ last.op = "getImportant"
  /\ Len(last.ret) = 2
  /\ \E i \in DOMAIN last.ret : last.ret[i].accessCount = 1
  /\ \A i \in DOMAIN last.ret : AccessCountOf(last.ret[i].id) = last.ret[i].accessCount

---------------------------------------------------------------------------
(* What get returns for this id, in each project. *)
GotEverywhere(id) == [p \in cfg.projects |-> Get(p, id)]

(* C19. update(id, partial) on a live entry sets the fields that partial   *)
(* has, among content, importance, metadata and tags, and updatedAt; id,   *)
(* projectId, type, createdAt, accessCount, embedding and the fields that  *)
(* partial does not have keep their values, and every other entry is as it *)
(* was.                                                                    *)
C19_UpdateFrame ==
  [][(last'.op = "update" /\ last'.found) =>
       LET old == Entry(last'.proj, last'.id)
           new == GotLast'
           u == last'.updates
       IN  /\ IsSome(new)
           /\ Val(new).content = IF IsSome(u.content) THEN Val(u.content) ELSE old.content
           /\ Val(new).importance =
                IF IsSome(u.importance) THEN Val(u.importance) ELSE old.importance
           /\ Val(new).metadata = IF IsSome(u.metadata) THEN u.metadata ELSE old.metadata
           /\ Val(new).tags = IF IsSome(u.tags) THEN u.tags ELSE old.tags
           /\ Val(new).updatedAt = now
           /\ Val(new).id = old.id
           /\ Val(new).projectId = old.projectId
           /\ Val(new).type = old.type
           /\ Val(new).createdAt = old.createdAt
           /\ Val(new).accessCount = old.accessCount
           /\ Val(new).embedding = old.embedding
           /\ \A id \in cfg.ids \ {last'.id} : GotEverywhere(id)' = GotEverywhere(id)]_vars

(* The content and importance of an entry with tags, metadata and an       *)
(* embedding were updated a day after it was stored, beside another entry. *)
C19_Witness ==
  /\ last.op = "update"
  /\ last.found
  /\ IsSome(last.updates.content)
  /\ IsSome(GotLast)
  /\ Val(GotLast).tags = Some(<<TagAuth, TagSecurity>>)
  /\ IsSome(Val(GotLast).embedding)
  /\ Val(GotLast).createdAt < Val(GotLast).updatedAt
  /\ \E id \in LiveIds(last.proj) : id # last.id

---------------------------------------------------------------------------
(* The tags getByTags is asked for after an update: the two tags of the    *)
(* entries, one in other letter case and one with the character _.         *)
AskedTags == {TagAuth, TagSecurity, <<"S", "E">>, <<"s", "_">>}

(* The last call was update(id, {tags: T}) on a live entry. *)
UpdatedTags == last.op = "update" /\ last.found /\ IsSome(last.updates.tags)

(* getByTags([g]) returns the entry of the last call. *)
ReturnedFor(g) == last.id \in IdsOf(GetByTags(last.proj, <<g>>, DefaultLimit))

(* WHERE tags LIKE '%"g"%' holds of the JSON text of the tags. *)
LikeMatches(tags, g) ==
  Like(JsonTextOfTags(tags), <<"%", "\"">> \o g \o <<"\"", "%">>)

---------------------------------------------------------------------------
(* SpecRecent: entries that outlive the run (ttlDays beyond maxTime) are   *)
(* stored on different days, updated, counted, searched and deleted.       *)

RecentTtlDays == MaxTime + 1

RecentConfig(backend) ==
  [UpdateConfig(backend) EXCEPT
     !.ttlDays = RecentTtlDays, !.maxTime = MaxTime,
     !.queries = {Query(<<"b">>, Some(1), None, None)},
     !.updates = {[NoUpdates EXCEPT !.tags = Some(<<TagSecurity>>)],
                  [NoUpdates EXCEPT !.importance = Some(90)]}]

InitRecent == \E backend \in {"redis", "sqlite"} : Start(RecentConfig(backend))

NextRecent ==
  \/ \E p \in cfg.projects, input \in cfg.inputs, id \in cfg.ids :
       Store(p, input, id)
  \/ \E p \in cfg.projects, id \in cfg.ids, u \in cfg.updates : Update(p, id, u)
  \/ \E p \in cfg.projects, id \in cfg.ids : IncrementAccess(p, id)
  \/ \E p \in cfg.projects, id \in cfg.ids : Delete(p, id)
  \/ \E p \in cfg.projects, q \in cfg.queries :
       SearchByKeyword(p, q.query, q.options)
  \/ Tick

SpecRecent == InitRecent /\ [][NextRecent]_vars

(* The entries come with createdAt descending. *)
NewestFirst(entries) ==
  \A i, j \in DOMAIN entries : i < j => entries[i].createdAt >= entries[j].createdAt

(* C21. After any sequence of store, update, incrementAccess and delete,   *)
(* getRecent(limit) returns its entries ordered by createdAt descending.   *)
C21_RecentOrder ==
  \A p \in cfg.projects, limit \in 1..(MaxIds + 1) : NewestFirst(GetRecent(p, limit))

(* The entries come with importance descending and, among entries of one   *)
(* importance, with accessCount descending.                                *)
MostImportantFirst(entries) ==
  \A i, j \in DOMAIN entries :
    i < j => \/ entries[i].importance > entries[j].importance
             \/ /\ entries[i].importance = entries[j].importance
                /\ entries[i].accessCount >= entries[j].accessCount

(* C22. After any sequence of store, update, search and delete,            *)
(* getImportant(limit) returns its entries ordered by their current        *)
(* importance descending, entries of equal importance by accessCount       *)
(* descending.                                                             *)
C22_ImportantOrder ==
  \A p \in cfg.projects, limit \in 1..(MaxIds + 1) :
    MostImportantFirst(GetImportant(p, limit))

---------------------------------------------------------------------------
(* ShortTermMemory: the conversation buffer of one session. The object     *)
(* (its config and its messages) is the field shortTerm of cfg.             *)

MaxMessages == 2

ConversationEntry(role, content, timestamp) ==
  [role |-> role, content |-> content, timestamp |-> timestamp, metadata |-> None]

(* A mutation of trimToLimit: the oldest maxMessages are kept. *)
trimToLimitOldest(messages, maxMessages) ==
  IF Len(messages) > maxMessages
  THEN SubSeq(messages, 1, maxMessages)
  ELSE messages

(* The messages trimToLimit leaves: the most recent maxMessages of them. *)
trimToLimit(messages, maxMessages) ==
  IF Len(messages) > maxMessages
  THEN LET excess == Len(messages) - maxMessages
       IN  SubSeq(messages, excess + 1, Len(messages))
  ELSE messages

ShortTermStep(op, messages) ==
  /\ cfg' = [cfg EXCEPT !.shortTerm.messages = messages]
  /\ last' = Call(op, "")
  /\ UNCHANGED <<now, usedIds, sqlite, redis>>

(* this.messages.push({role, content, timestamp: new Date(), metadata});    *)
(* this.trimToLimit(): the buffer that an addMessage leaves.               *)
Pushed(role, content) ==
  trimToLimit(Append(cfg.shortTerm.messages, ConversationEntry(role, content, now)),
              cfg.shortTerm.config.maxMessages)

addMessage(role, content) == ShortTermStep("addMessage", Pushed(role, content))

addUserMessage(content) == addMessage("user", content)

addAssistantMessage(content) == addMessage("assistant", content)

ShortTermClear == ShortTermStep("clear", <<>>)

(* import(data): the messages of data replace the buffer, each with its    *)
(* timestamp read back as a date.                                          *)
ShortTermImport(data) ==
  ShortTermStep("import", [i \in DOMAIN data |-> data[i]])

(* Exports of sessions of any length. *)
ImportData ==
  {[i \in 1..n |-> ConversationEntry("user", <<"a">>, 0)] : n \in 0..(MaxMessages + 1)}

ShortTermConfig(maxMessages) ==
  [Config("none", 1) EXCEPT !.maxMemories = None]
    @@ [shortTerm |-> [config |-> [maxMessages |-> maxMessages, sessionId |-> "s"],
                       messages |-> <<>>]]

InitShortTerm == \E maxMessages \in 1..MaxMessages : Start(ShortTermConfig(maxMessages))

NextShortTerm ==
  \/ \E role \in {"user", "assistant", "system"}, content \in {<<"a">>, <<"b">>} :
       addMessage(role, content)
  \/ \E content \in {<<"a">>, <<"b">>} : addUserMessage(content)
  \/ \E content \in {<<"a">>, <<"b">>} : addAssistantMessage(content)
  \/ ShortTermClear
  \/ \E data \in ImportData : ShortTermImport(data)
  \/ now < cfg.maxTime /\ now' = now + 1 /\ last' = Call("tick", "")
       /\ UNCHANGED <<cfg, usedIds, sqlite, redis>>

SpecShortTerm == InitShortTerm /\ [][NextShortTerm]_vars

(* C23. After any sequence of addMessage, addUserMessage,                  *)
(* addAssistantMessage, clear and import, a ShortTermMemory holds at most  *)
(* maxMessages conversation entries.                                       *)
C23_BufferBounded ==
  Len(cfg.shortTerm.messages) <= cfg.shortTerm.config.maxMessages

---------------------------------------------------------------------------
(* The per-type store helpers of ProjectMemory: each is store with its     *)
(* type and its importance (in hundredths), the tags passed on.            *)

StoreHelper(op, p, content, type, importance, tags, id, outcome) ==
  ProjectMemoryStoreAs(op, p, Input(content, type, Some(importance), None, None, tags),
                       id, outcome)

(* A mutation of storeDecision: the importance of the pattern helpers. *)
storeDecisionAsPattern(p, content, tags, id, outcome) ==
  StoreHelper("storeDecision", p, content, "decision", 70, tags, id, outcome)

storeContext(p, content, tags, id, outcome) ==
  StoreHelper("storeContext", p, content, "context", 70, tags, id, outcome)

storeArchitecture(p, content, tags, id, outcome) ==
  StoreHelper("storeArchitecture", p, content, "architecture", 80, tags, id, outcome)

storePattern(p, content, tags, id, outcome) ==
  StoreHelper("storePattern", p, content, "pattern", 70, tags, id, outcome)

storeDecision(p, content, tags, id, outcome) ==
  StoreHelper("storeDecision", p, content, "decision", 80, tags, id, outcome)

storeDependency(p, content, tags, id, outcome) ==
  StoreHelper("storeDependency", p, content, "dependency", 60, tags, id, outcome)

storeConfig(p, content, tags, id, outcome) ==
  StoreHelper("storeConfig", p, content, "config", 60, tags, id, outcome)

storeTodo(p, content, tags, id, outcome) ==
  StoreHelper("storeTodo", p, content, "todo", 50, tags, id, outcome)

storeIssue(p, content, tags, id, outcome) ==
  StoreHelper("storeIssue", p, content, "issue", 70, tags, id, outcome)

(* SpecHelpers: the helpers and store, with and without an importance, on  *)
(* either backend with an embedding provider that succeeds or fails.       *)
HelperEntries ==
  {Input(<<"a">>, "issue", None, None, None, None),
   Input(<<"a">>, "todo", Some(90), None, None, Some(<<TagAuth>>))}

HelperConfig(backend) ==
  [FacadeConfig(backend, None, TRUE) EXCEPT
     !.inputs = HelperEntries, !.embedVectors = {<<1, 0>>}]

InitHelpers == \E backend \in {"redis", "sqlite"} : Start(HelperConfig(backend))

HelperTags == {None, Some(<<TagAuth>>)}

NextHelpers ==
  \/ \E p \in cfg.projects, input \in cfg.inputs, id \in cfg.ids,
        outcome \in EmbedOutcomes :
       ProjectMemoryStore(p, input, id, outcome)
  \/ \E p \in cfg.projects, tags \in HelperTags, id \in cfg.ids,
        outcome \in EmbedOutcomes :
       storeContext(p, <<"a">>, tags, id, outcome)
  \/ \E p \in cfg.projects, tags \in HelperTags, id \in cfg.ids,
        outcome \in EmbedOutcomes :
       storeArchitecture(p, <<"a">>, tags, id, outcome)
  \/ \E p \in cfg.projects, tags \in HelperTags, id \in cfg.ids,
        outcome \in EmbedOutcomes :
       storePattern(p, <<"a">>, tags, id, outcome)
  \/ \E p \in cfg.projects, tags \in HelperTags, id \in cfg.ids,
        outcome \in EmbedOutcomes :
       storeDecision(p, <<"a">>, tags, id, outcome)
  \/ \E p \in cfg.projects, tags \in HelperTags, id \in cfg.ids,
        outcome \in EmbedOutcomes :
       storeDependency(p, <<"a">>, tags, id, outcome)
  \/ \E p \in cfg.projects, tags \in HelperTags, id \in cfg.ids,
        outcome \in EmbedOutcomes :
       storeConfig(p, <<"a">>, tags, id, outcome)
  \/ \E p \in cfg.projects, tags \in HelperTags, id \in cfg.ids,
        outcome \in EmbedOutcomes :
       storeTodo(p, <<"a">>, tags, id, outcome)
  \/ \E p \in cfg.projects, tags \in HelperTags, id \in cfg.ids,
        outcome \in EmbedOutcomes :
       storeIssue(p, <<"a">>, tags, id, outcome)

SpecHelpers == InitHelpers /\ [][NextHelpers]_vars

(* The last call stored an entry of this type and importance: that is what *)
(* the backend was handed and what get returns.                            *)
StoredAs(type, importance) ==
  /\ IsSome(last.entry)
  /\ Val(last.entry).type = type
  /\ Val(last.entry).importance = importance
  /\ IsSome(Get(last.proj, last.id))
  /\ Entry(last.proj, last.id).type = type
  /\ Entry(last.proj, last.id).importance = importance

(* C25. Each per-type helper stores with its type and its importance:      *)
(* storeArchitecture and storeDecision 0.8, storePattern and storeContext  *)
(* 0.7, storeDependency and storeConfig 0.6, storeTodo 0.5, storeIssue     *)
(* 0.7; store without an importance option stores 0.5, and with one the    *)
(* importance given.                                                       *)
C25_HelperDefaults ==
  /\ last.op = "storeArchitecture" => StoredAs("architecture", 80)
  /\ last.op = "storeDecision" => StoredAs("decision", 80)
  /\ last.op = "storePattern" => StoredAs("pattern", 70)
  /\ last.op = "storeContext" => StoredAs("context", 70)
  /\ last.op = "storeDependency" => StoredAs("dependency", 60)
  /\ last.op = "storeConfig" => StoredAs("config", 60)
  /\ last.op = "storeTodo" => StoredAs("todo", 50)
  /\ last.op = "storeIssue" => StoredAs("issue", 70)
  /\ last.op = "ProjectMemory.store" =>
       StoredAs(Val(last.entry).type,
                IF IsSome(last.given) THEN Val(last.given) ELSE 50)

(* A decision stored by its helper next to an entry stored without an      *)
(* importance.                                                             *)
C25_Witness ==
  /\ last.op = "storeDecision"
  /\ Entry(last.proj, last.id).importance = 80
  /\ \E id \in LiveIds(last.proj) :
       Entry(last.proj, id).type = "issue" /\ Entry(last.proj, id).importance = 50

---------------------------------------------------------------------------
(* RedisStorage.store, one command at a time. Every await of store and of  *)
(* the helpers it calls is a point where another call of the process may   *)
(* run and where the command may fail. The calls in progress are the field *)
(* calls of cfg, one per id: the position of the call (pc), the entry it   *)
(* is storing, the tags not yet indexed, the commands it has completed     *)
(* (written) and the ids its retention run is deleting.                    *)

IdleCall ==
  [pc |-> "idle", proj |-> "", entry |-> None, tagsLeft |-> <<>>, written |-> {},
   count |-> 0, ids |-> <<>>]

CallOf(id) == cfg.calls[id]

FullEntryOf(id) == Val(CallOf(id).entry)

(* The call of id moves to pc, the fields in changes replaced. *)
StoreMoves(id, pc, changes) ==
  cfg' = [cfg EXCEPT !.calls[id] =
            [f \in DOMAIN @ |->
               IF f = "pc" THEN pc
               ELSE IF f \in DOMAIN changes THEN changes[f] ELSE @[f]]]

StoreWrote(id, what) == [written |-> CallOf(id).written \cup {what}]

(* const id = uuidv4(); const now = new Date(); const fullEntry = ... *)
StoreBegin(p, input, id) ==
  /\ Fresh(id)
  /\ CallOf(id).pc = "idle"
  /\ usedIds' = usedIds \cup {id}
  /\ LET entry == FacadeEntry(p, input)
         fullEntry == [id |-> id, projectId |-> entry.projectId,
                       content |-> entry.content, type |-> entry.type,
                       importance |-> entry.importance, embedding |-> entry.embedding,
                       metadata |-> entry.metadata, tags |-> entry.tags,
                       createdAt |-> now, updatedAt |-> now, accessCount |-> 0]
     IN  /\ StoreMoves(id, "record",
                       [proj |-> p, entry |-> Some(fullEntry),
                        tagsLeft |-> IF IsSome(entry.tags) THEN Val(entry.tags)
                                     ELSE <<>>])
         /\ last' = [Call("store", p) EXCEPT !.id = id, !.entry = Some(entry),
                                              !.countBefore = GetCount(p)]
  /\ UNCHANGED <<now, sqlite, redis>>

(* await this.redis.set(this.memoryKey(id), JSON.stringify(entryToStore),  *)
(* "EX", ttl)                                                              *)
StoreSetRecord(id) ==
  /\ CallOf(id).pc = "record"
  /\ LET fullEntry == FullEntryOf(id)
         entryToStore == [fullEntry EXCEPT !.embedding = None]
     IN  /\ redis' = [redis EXCEPT !.entry =
                        SetEx(redis.entry, memoryKey(CallOf(id).proj, id),
                              JsonStringify(entryToStore), cfg.ttlDays, now)]
         /\ StoreMoves(id, IF IsSome(fullEntry.embedding) THEN "embedding" ELSE "type",
                       StoreWrote(id, <<"record", <<>>>>))
  /\ last' = [Call("store.set", CallOf(id).proj) EXCEPT !.id = id]
  /\ UNCHANGED <<now, usedIds, sqlite>>

(* if (entry.embedding) await this.redis.set(this.embeddingKey(id), ...) *)
StoreSetEmbedding(id) ==
  /\ CallOf(id).pc = "embedding"
  /\ redis' = [redis EXCEPT !.emb =
                 SetEx(redis.emb, embeddingKey(CallOf(id).proj, id),
                       JsonStringify(Val(FullEntryOf(id).embedding)), cfg.ttlDays, now)]
  /\ StoreMoves(id, "type", StoreWrote(id, <<"embedding", <<>>>>))
  /\ last' = [Call("store.setEmbedding", CallOf(id).proj) EXCEPT !.id = id]
  /\ UNCHANGED <<now, usedIds, sqlite>>

(* addToIndexes, one zadd: the type index, the importance index, the       *)
(* recent index, one index per tag, and the all index last.                *)
AddToIndexesStep(id) ==
  LET c == CallOf(id)
      p == c.proj
      entry == FullEntryOf(id)
      score == now
  IN  /\ c.pc \in {"type", "importance", "recent", "tag", "all"}
      /\ CASE c.pc = "type" ->
                /\ redis' = ZAdd(redis, indexKey(p, "type", entry.type), score, id)
                /\ StoreMoves(id, "importance", StoreWrote(id, <<"type", <<>>>>))
           [] c.pc = "importance" ->
                /\ redis' = ZAdd(redis, indexKey(p, "importance", ""),
                                 entry.importance * ImportanceScale, id)
                /\ StoreMoves(id, "recent", StoreWrote(id, <<"importance", <<>>>>))
           [] c.pc = "recent" ->
                /\ redis' = ZAdd(redis, indexKey(p, "recent", ""), score, id)
                /\ StoreMoves(id, IF c.tagsLeft = <<>> THEN "all" ELSE "tag",
                              StoreWrote(id, <<"recent", <<>>>>))
           [] c.pc = "tag" ->
                /\ redis' = ZAdd(redis, indexKey(p, "tag", Head(c.tagsLeft)), score, id)
                /\ StoreMoves(id, IF Tail(c.tagsLeft) = <<>> THEN "all" ELSE "tag",
                              [tagsLeft |-> Tail(c.tagsLeft)]
                                @@ StoreWrote(id, <<"tag", Head(c.tagsLeft)>>))
           [] c.pc = "all" ->
                /\ redis' = ZAdd(redis, indexKey(p, "all", ""), score, id)
                /\ StoreMoves(id, "count", StoreWrote(id, <<"all", <<>>>>))
      /\ last' = [Call("store.zadd", p) EXCEPT !.id = id]
      /\ UNCHANGED <<now, usedIds, sqlite>>

(* enforceMemoryLimits: const count = await this.getCount() *)
EnforceCount(id) ==
  LET c == CallOf(id)
      count == RedisGetCount(redis, c.proj)
  IN  /\ c.pc = "count"
      /\ StoreMoves(id, IF count > MaxMemoriesOf(cfg) THEN "range" ELSE "done",
                    [count |-> count])
      /\ last' = [Call("store.getCount", c.proj) EXCEPT !.id = id]
      /\ UNCHANGED <<now, usedIds, sqlite, redis>>

(* const ids = await this.redis.zrange(importance, 0, toDelete - 1) *)
EnforceRange(id) ==
  LET c == CallOf(id)
      toDelete == c.count - MaxMemoriesOf(cfg) + BatchMargin
      ids == ZRange(redis, indexKey(c.proj, "importance", ""), 0, toDelete - 1)
  IN  /\ c.pc = "range"
      /\ StoreMoves(id, IF ids = <<>> THEN "done" ELSE "delete", [ids |-> ids])
      /\ last' = [Call("store.zrange", c.proj) EXCEPT !.id = id]
      /\ UNCHANGED <<now, usedIds, sqlite, redis>>

(* for (const id of ids) await this.delete(id) *)
EnforceDelete(id) ==
  LET c == CallOf(id)
  IN  /\ c.pc = "delete"
      /\ redis' = RedisDelete(redis, c.proj, Head(c.ids))
      /\ StoreMoves(id, IF Tail(c.ids) = <<>> THEN "done" ELSE "delete",
                    [ids |-> Tail(c.ids)])
      /\ last' = [Call("store.delete", c.proj) EXCEPT !.id = id]
      /\ UNCHANGED <<now, usedIds, sqlite>>

(* The command the call is waiting for is rejected: store throws and the   *)
(* commands that completed stay.                                           *)
StoreFail(id) ==
  /\ CallOf(id).pc \notin {"idle", "done", "failed"}
  /\ StoreMoves(id, "failed", <<>>)
  /\ last' = [Call("store.fail", CallOf(id).proj) EXCEPT !.id = id]
  /\ UNCHANGED <<now, usedIds, sqlite, redis>>

(* SpecSteps: store calls on one project of the Redis backend, one command *)
(* at a time and interleaved, with a limit of maxMemories.                 *)
StepEntries ==
  {Input(<<"a">>, "context", Some(30), Some(<<1, 0>>), None,
         Some(<<TagAuth, TagSecurity>>)),
   Input(<<"b">>, "decision", Some(90), None, None, None)}

StepConfig(maxMemories) ==
  [Config("redis", 1) EXCEPT
     !.maxMemories = maxMemories, !.maxTime = 0, !.uuids = "any",
     !.ids = 1..MaxIds, !.inputs = StepEntries]
    @@ [calls |-> [id \in 1..MaxIds |-> IdleCall]]

InitSteps == \E maxMemories \in {None, Some(1)} : Start(StepConfig(maxMemories))

NextSteps ==
  \/ \E p \in cfg.projects, input \in cfg.inputs, id \in cfg.ids :
       StoreBegin(p, input, id)
  \/ \E id \in cfg.ids : StoreSetRecord(id)
  \/ \E id \in cfg.ids : StoreSetEmbedding(id)
  \/ \E id \in cfg.ids : AddToIndexesStep(id)
  \/ \E id \in cfg.ids : EnforceCount(id)
  \/ \E id \in cfg.ids : EnforceRange(id)
  \/ \E id \in cfg.ids : EnforceDelete(id)
  \/ \E id \in cfg.ids : StoreFail(id)

SpecSteps == InitSteps /\ [][NextSteps]_vars

(* The entry id of project p is nowhere in the keyspace. *)
AbsentEverywhere(p, id) ==
  /\ memoryKey(p, id) \notin DOMAIN redis.entry
  /\ embeddingKey(p, id) \notin DOMAIN redis.emb
  /\ id \notin IndexedIds(p)

(* The entry id of project p is a record and a member of the all, recent   *)
(* and importance indexes, of the index of its type and of the index of    *)
(* each of its tags.                                                       *)
PresentEverywhere(p, id) ==
  /\ IsSome(RedisGet(redis, p, id))
  /\ LET entry == Val(RedisGet(redis, p, id))
         In(kind, name) == id \in DOMAIN ZSet(redis, indexKey(p, kind, name))
     IN  /\ In("all", "") /\ In("recent", "") /\ In("importance", "")
         /\ In("type", entry.type)
         /\ IsSome(entry.tags) =>
              \A i \in DOMAIN Val(entry.tags) : In("tag", Val(entry.tags)[i])

(* The ids getCount counts. *)
Counted(p) == DOMAIN ZSet(redis, indexKey(p, "all", ""))

(* C24. store is atomic per entry in the Redis backend: in every state,    *)
(* those between the commands of a store in progress and those a failed    *)
(* store leaves included, an entry is either absent from the records and   *)
(* from every index, or a record that is in the all, recent and importance *)
(* indexes, in the index of its type and in that of each of its tags; and  *)
(* no list operation returns an entry that getCount does not count.        *)
C24_StoreAtomic ==
  \A p \in cfg.projects :
    /\ \A id \in cfg.ids : AbsentEverywhere(p, id) \/ PresentEverywhere(p, id)
    /\ \A limit \in 1..(MaxIds + 1) :
         /\ IdsOf(GetRecent(p, limit)) \subseteq Counted(p)
         /\ IdsOf(GetImportant(p, limit)) \subseteq Counted(p)
         /\ \A type \in AllTypes : IdsOf(GetByType(p, type, limit)) \subseteq Counted(p)

(* The commands store issues for the entry before its retention run. *)
WritesOf(entry) ==
  {<<"record", <<>>>>, <<"type", <<>>>>, <<"importance", <<>>>>, <<"recent", <<>>>>,
   <<"all", <<>>>>}
    \cup (IF IsSome(entry.embedding) THEN {<<"embedding", <<>>>>} ELSE {})
    \cup (IF IsSome(entry.tags)
          THEN {<<"tag", Val(entry.tags)[i]>> : i \in DOMAIN Val(entry.tags)}
          ELSE {})

(* The call of id reads the count for its retention run in this step. *)
ReadsCount(id) == CallOf(id).pc = "count" /\ CallOf(id)'.pc \in {"range", "done"}

(* C27. Within one store call the retention run starts only after the      *)
(* record and every index entry of the call have been written, and the     *)
(* count it reads includes the entry the call has just written, also when  *)
(* other store calls on the same project are in progress.                  *)
C27_RetentionAfterWrite ==
  [][\A id \in cfg.ids :
       ReadsCount(id) =>
         /\ CallOf(id).written = WritesOf(FullEntryOf(id))
         /\ id \in Counted(CallOf(id).proj)]_vars

---------------------------------------------------------------------------
(* SpecRank: as SpecBig, a project filled with BigMaxMemories entries of   *)
(* one importance, then accesses and further stores, within one day.       *)

NextRank ==
  \/ \E p \in cfg.projects, id \in cfg.ids : ~Filled /\ Store(p, LowEntry, id)
  \/ \E p \in cfg.projects, id \in BigArgIds : Filled /\ IncrementAccess(p, id)
  \/ \E p \in cfg.projects, input \in cfg.inputs, id \in cfg.ids :
       Filled /\ Store(p, input, id)

SpecRank == InitBig /\ [][NextRank]_vars

(* The place of an entry in the eviction order. *)
RankOf(entry) == <<entry.importance, entry.accessCount, entry.createdAt>>

(* C26. Count eviction respects the order (importance, accessCount,        *)
(* createdAt) ascending: when a store evicts entries, no evicted entry     *)
(* ranks strictly higher in that order than an entry of the project that   *)
(* survives the eviction.                                                  *)
C26_EvictionOrder ==
  [][\A p \in cfg.projects :
       (last'.op = "store" /\ last'.proj = p) =>
         LET new == last'.id
             rank(id) == IF id = new THEN <<Val(last'.entry).importance, 0, now>>
                         ELSE RankOf(Entry(p, id))
             evicted == (LiveIds(p) \cup {new}) \ LiveIds(p)'
         IN  \A e \in evicted, s \in LiveIds(p)' : ~LexLess(rank(s), rank(e))]_vars

(* C28. In the Redis backend, in every state between operations, those     *)
(* reached after records have expired through their TTL included,          *)
(* getCount() is the number of entries get finds: the all index holds      *)
(* exactly the ids of the live records.                                    *)
C28_CountIsLive ==
  IsRedis =>
    \A p \in cfg.projects :
      /\ GetCount(p) = Cardinality(LiveIds(p))
      /\ DOMAIN ZSet(redis, indexKey(p, "all", "")) = LiveIds(p)

(* Every list and search operation of project p returns nothing. *)
NothingReturned(p) ==
  /\ \A limit \in 1..(MaxIds + 1) :
       /\ GetRecent(p, limit) = <<>>
       /\ GetImportant(p, limit) = <<>>
       /\ \A type \in AllTypes : GetByType(p, type, limit) = <<>>
       /\ \A tags \in TagLists : GetByTags(p, tags, limit) = <<>>
  /\ \A q \in cfg.queries : KeywordSearch(p, q.query, q.options).ret = <<>>
  /\ \A q \in cfg.vectors : EmbeddingSearch(p, q.query, q.options).ret = <<>>

(* C29. After clear() has completed, getCount() is 0 and every search and  *)
(* list operation of the project returns an empty list, on both backends   *)
(* and from every state, those that hold ids of expired records included.  *)
C29_ClearEmpties ==
  last.op = "clear" => GetCount(last.proj) = 0 /\ NothingReturned(last.proj)

---------------------------------------------------------------------------
(* SpecIndex: the Redis backend over one day with entries that live two,   *)
(* with and without a limit of memories, one operation at a time.          *)

IndexConfig(maxMemories) ==
  [RecentConfig("redis") EXCEPT
     !.maxMemories = maxMemories, !.ttlDays = 2, !.maxTime = 1]

InitIndex == \E maxMemories \in {None, Some(1)} : Start(IndexConfig(maxMemories))

NextIndex ==
  \/ \E p \in cfg.projects, input \in cfg.inputs, id \in cfg.ids :
       Store(p, input, id)
  \/ \E p \in cfg.projects, id \in cfg.ids, u \in cfg.updates : Update(p, id, u)
  \/ \E p \in cfg.projects, id \in cfg.ids : IncrementAccess(p, id)
  \/ \E p \in cfg.projects, id \in cfg.ids : Delete(p, id)
  \/ \E p \in cfg.projects : Clear(p)
  \/ Tick

SpecIndex == InitIndex /\ [][NextIndex]_vars

(* The members of index kind:name of project p. *)
Members(p, kind, name) == DOMAIN ZSet(redis, indexKey(p, kind, name))

(* The tags of an entry. *)
TagsOf(entry) == IF IsSome(entry.tags) THEN Range(Val(entry.tags)) ELSE {}

(* C30. In the Redis backend, when no record expires and operations run    *)
(* one at a time, after any sequence of store, update, incrementAccess,    *)
(* delete and clear the indexes agree with the records: all, recent and    *)
(* importance hold exactly the ids of the existing records, type:<t>       *)
(* exactly those of the records of type t, tag:<g> exactly those of the    *)
(* records whose tags include g, and the importance score of an id is its  *)
(* current importance times 1000 (10 per hundredth).                       *)
C30_IndexesConsistent ==
  \A p \in cfg.projects :
    LET live == LiveIds(p)
    IN  /\ Members(p, "all", "") = live
        /\ Members(p, "recent", "") = live
        /\ Members(p, "importance", "") = live
        /\ \A t \in AllTypes :
             Members(p, "type", t) = {id \in live : Entry(p, id).type = t}
        /\ \A k \in DOMAIN redis.idx :
             (k[1] = p /\ k[2] = "tag") =>
               redis.idx[k] # EmptyFn
                 /\ DOMAIN redis.idx[k] \subseteq {id \in live : k[3] \in TagsOf(Entry(p, id))}
        /\ \A id \in live :
             /\ \A g \in TagsOf(Entry(p, id)) : id \in Members(p, "tag", g)
             /\ ZSet(redis, indexKey(p, "importance", ""))[id]
                  = Entry(p, id).importance * 10

(* An entry whose tags and importance were updated next to one that was    *)
(* not: the first is in the index of its new tag only, with its new score. *)
C30_Witness ==
  \E p \in cfg.projects : \E a, b \in LiveIds(p) :
    /\ TagsOf(Entry(p, a)) = {TagSecurity}
    /\ Entry(p, a).importance = 90
    /\ TagsOf(Entry(p, b)) = {TagAuth, TagSecurity}
    /\ Members(p, "tag", TagAuth) = {b}
    /\ Members(p, "tag", TagSecurity) = {a, b}
    /\ last.op = "incrementAccess"

---------------------------------------------------------------------------
(* SpecDangling: the Redis backend with a retention window of one day.     *)
(* Index members outlive their records; the record of an entry expires an  *)
(* instant before its embedding, which store writes after it.              *)

(* The TTL of the record of id runs out while that of its embedding, set   *)
(* by a later command, has not.                                            *)
RecordExpires(p, id) ==
  /\ IsRedis
  /\ memoryKey(p, id) \in DOMAIN redis.entry
  /\ embeddingKey(p, id) \in DOMAIN redis.emb
  /\ redis.entry[memoryKey(p, id)].exp = Some(now + 1)
  /\ redis' = [redis EXCEPT !.entry = Drop(redis.entry, memoryKey(p, id))]
  /\ last' = [Call("expire", p) EXCEPT !.id = id]
  /\ UNCHANGED <<cfg, now, usedIds, sqlite>>

DanglingEntries ==
  {Input(<<"a">>, "context", Some(30), Some(<<1, 0>>), None, Some(<<TagAuth>>))}

DanglingConfig ==
  [Config("redis", 1) EXCEPT
     !.maxMemories = None, !.inputs = DanglingEntries,
     !.updates = {[NoUpdates EXCEPT !.tags = Some(<<TagSecurity>>)]},
     !.queries = {Query(<<"a">>, None, None, None)},
     !.vectors = {Query(<<1, 0>>, None, None, Some(20))}]

InitDangling == Start(DanglingConfig)

NextDangling ==
  \/ \E p \in cfg.projects, input \in cfg.inputs, id \in cfg.ids :
       Store(p, input, id)
  \/ \E p \in cfg.projects, id \in cfg.ids, u \in cfg.updates : Update(p, id, u)
  \/ \E p \in cfg.projects, id \in cfg.ids : IncrementAccess(p, id)
  \/ \E p \in cfg.projects, id \in cfg.ids : Delete(p, id)
  \/ \E p \in cfg.projects, q \in cfg.queries :
       SearchByKeyword(p, q.query, q.options)
  \/ \E p \in cfg.projects, q \in cfg.vectors :
       SearchByEmbedding(p, q.query, q.options)
  \/ \E p \in cfg.projects, id \in cfg.ids : RecordExpires(p, id)
  \/ Tick

SpecDangling == InitDangling /\ [][NextDangling]_vars

(* The ids in an index of project p that have no record. *)
DanglingIds(p) == IndexedIds(p) \ LiveIds(p)

(* Every element of the list is an entry as get returns it. *)
OnlyEntries(p, entries) ==
  \A i \in DOMAIN entries :
    IsSome(Get(p, entries[i].id)) /\ entries[i] = Entry(p, entries[i].id)

(* Every read path of project p returns entries only. *)
ReadPathsSkip(p) ==
  /\ \A limit \in 1..(MaxIds + 1) :
       /\ OnlyEntries(p, GetRecent(p, limit))
       /\ OnlyEntries(p, GetImportant(p, limit))
       /\ \A type \in AllTypes : OnlyEntries(p, GetByType(p, type, limit))
       /\ \A tags \in TagLists : OnlyEntries(p, GetByTags(p, tags, limit))
  /\ \A q \in cfg.queries : OnlyEntries(p, KeywordSearch(p, q.query, q.options).ret)
  /\ \A q \in cfg.vectors : OnlyEntries(p, EmbeddingSearch(p, q.query, q.options).ret)

(* C31. In the Redis backend every read path (getByType, getByTags,        *)
(* getRecent, getImportant, searchByKeyword, searchByEmbedding) skips an   *)
(* index id whose record or embedding is missing or expired, so that no    *)
(* returned list holds a null or partial entry; update, incrementAccess    *)
(* and delete treat such an id as not found and change nothing.            *)
C31_DanglingTolerated ==
  [][/\ \A p \in cfg.projects : ReadPathsSkip(p)
     /\ (last'.op \in {"update", "incrementAccess", "delete"} /\ ~last'.found)
          => redis' = redis]_vars

(* A search that returns an entry while an indexed id has an embedding but *)
(* no record.                                                              *)
C31_Witness ==
  /\ last.op = "searchByEmbedding"
  /\ last.ret # <<>>
  /\ \E p \in cfg.projects : \E a \in DanglingIds(p) :
       embeddingKey(p, a) \in DOMAIN redis.emb

---------------------------------------------------------------------------
(* RedisStorage.incrementAccess, update and delete, one await at a time.   *)
(* Between the get that opens each of them and the commands that follow,   *)
(* other calls of the process run and keys expire. The calls in progress   *)
(* are the field ops of cfg, one per operation: its position (pc), its     *)
(* project and id, the entry its get returned and, for update, its         *)
(* argument. Two fields keep the history: deleted, the ids for which a     *)
(* delete has completed, and wrote, per id the fields the completed        *)
(* updates have written.                                                   *)

IdleOp == [pc |-> "idle", proj |-> "", id |-> 0, entry |-> None, updates |-> NoUpdates]

OpOf(name) == cfg.ops[name]

(* The fields of older as the update newer overrides them. *)
Override(older, newer) ==
  [f \in DOMAIN older |-> IF IsSome(newer[f]) THEN newer[f] ELSE older[f]]

(* The step of a call: the keyspace it leaves and the record of the call. *)
OpStep(step, name, R, op) ==
  /\ redis' = R
  /\ cfg' = [cfg EXCEPT
       !.ops[name] = op,
       !.deleted = IF name = "delete" /\ op.pc = "idle"
                   THEN @ \cup {OpOf(name).id} ELSE @,
       !.wrote = IF name = "update" /\ op.pc = "idle" /\ IsSome(OpOf(name).entry)
                 THEN [@ EXCEPT ![OpOf(name).id] = Override(@, OpOf(name).updates)]
                 ELSE @]
  /\ last' = [Call(step, OpOf(name).proj) EXCEPT !.id = OpOf(name).id]
  /\ UNCHANGED <<now, usedIds, sqlite>>

(* The get that opens an operation on a stored id: const entry = await     *)
(* this.get(id); if (!entry) return;                                       *)
OpGet(name, p, id, updates, pc) ==
  LET got == RedisGet(redis, p, id)
  IN  /\ OpOf(name).pc = "idle"
      /\ id \in usedIds
      /\ redis' = redis
      /\ cfg' = [cfg EXCEPT
           !.ops[name] = IF IsSome(got)
                         THEN [pc |-> pc, proj |-> p, id |-> id, entry |-> got,
                               updates |-> updates]
                         ELSE IdleOp,
           !.deleted = IF name = "delete" /\ ~IsSome(got) THEN @ \cup {id} ELSE @]
      /\ last' = [Call(name \o ".get", p) EXCEPT !.id = id, !.found = IsSome(got)]
      /\ UNCHANGED <<now, usedIds, sqlite>>

IncrementAccessGet(p, id) ==
  /\ AccessCountOf(id) < MaxAccess
  /\ OpGet("incrementAccess", p, id, NoUpdates, "set")

(* entry.accessCount++; entry.updatedAt = new Date(); delete                *)
(* entry.embedding; await this.redis.set(key, JSON.stringify(entry),       *)
(* "KEEPTTL")                                                              *)
IncrementAccessSet ==
  LET op == OpOf("incrementAccess")
      entry == [Val(op.entry) EXCEPT !.accessCount = @ + 1, !.updatedAt = now,
                                     !.embedding = None]
  IN  /\ op.pc = "set"
      /\ OpStep("incrementAccess.set", "incrementAccess",
                [redis EXCEPT !.entry = SetKeepTtl(redis.entry, memoryKey(op.proj, op.id),
                                                   JsonStringify(entry))],
                IdleOp)

UpdateGet(p, id, updates) ==
  OpGet("update", p, id, updates, IF IsSome(updates.tags) THEN "remove" ELSE "set")

(* if (updates.tags) await this.removeFromIndexes(entry) *)
UpdateRemove ==
  LET op == OpOf("update")
  IN  /\ op.pc = "remove"
      /\ OpStep("update.removeFromIndexes", "update",
                RedisRemoveFromIndexes(redis, op.proj, Val(op.entry)),
                [op EXCEPT !.pc = "set"])

(* await this.redis.set(key, JSON.stringify(updatedEntry), "KEEPTTL") *)
UpdateSet ==
  LET op == OpOf("update")
      updatedEntry == [Merge(Val(op.entry), op.updates) EXCEPT
                         !.updatedAt = now, !.embedding = None]
  IN  /\ op.pc = "set"
      /\ OpStep("update.set", "update",
                [redis EXCEPT !.entry = SetKeepTtl(redis.entry, memoryKey(op.proj, op.id),
                                                   JsonStringify(updatedEntry))],
                IF IsSome(op.updates.importance) THEN [op EXCEPT !.pc = "score"]
                ELSE IF IsSome(op.updates.tags) THEN [op EXCEPT !.pc = "add"]
                ELSE IdleOp)

(* if (updates.importance !== undefined) await this.redis.zadd(importance) *)
UpdateScore ==
  LET op == OpOf("update")
  IN  /\ op.pc = "score"
      /\ OpStep("update.zadd", "update",
                ZAdd(redis, indexKey(op.proj, "importance", ""),
                     Val(op.updates.importance) * ImportanceScale, op.id),
                IF IsSome(op.updates.tags) THEN [op EXCEPT !.pc = "add"] ELSE IdleOp)

(* if (updates.tags) await this.addToIndexes({ ...entry, ...updates }) *)
UpdateAdd ==
  LET op == OpOf("update")
  IN  /\ op.pc = "add"
      /\ OpStep("update.addToIndexes", "update",
                RedisAddToIndexes(redis, op.proj, Merge(Val(op.entry), op.updates), now),
                IdleOp)

DeleteGet(p, id) == OpGet("delete", p, id, NoUpdates, "remove")

(* await this.removeFromIndexes(entry) *)
DeleteRemove ==
  LET op == OpOf("delete")
  IN  /\ op.pc = "remove"
      /\ OpStep("delete.removeFromIndexes", "delete",
                RedisRemoveFromIndexes(redis, op.proj, Val(op.entry)),
                [op EXCEPT !.pc = "del"])

(* await this.redis.del(this.memoryKey(id)); await                         *)
(* this.redis.del(this.embeddingKey(id))                                   *)
DeleteDel ==
  LET op == OpOf("delete")
  IN  /\ op.pc = "del"
      /\ OpStep("delete.del", "delete",
                [redis EXCEPT !.entry = Drop(redis.entry, memoryKey(op.proj, op.id)),
                              !.emb = Drop(redis.emb, embeddingKey(op.proj, op.id))],
                IdleOp)

(* SpecRace: an entry stored on the Redis backend with a retention window  *)
(* of one day, then accessed, updated and deleted by interleaved calls     *)
(* while a day passes.                                                     *)
RaceEntries ==
  {Input(<<"a">>, "context", Some(30), Some(<<1, 0>>), None, Some(<<TagAuth>>))}

RaceConfig ==
  [Config("redis", 1) EXCEPT
     !.maxMemories = None, !.ids = {1}, !.inputs = RaceEntries,
     !.updates = {[NoUpdates EXCEPT !.content = Some(<<"b">>)],
                  [NoUpdates EXCEPT !.tags = Some(<<TagSecurity>>),
                                    !.importance = Some(90)]}]
    @@ [ops |-> [name \in {"incrementAccess", "update", "delete"} |-> IdleOp],
        deleted |-> {},
        wrote |-> [id \in {1} |-> NoUpdates]]

InitRace == Start(RaceConfig)

NextRace ==
  \/ \E p \in cfg.projects, input \in cfg.inputs, id \in cfg.ids :
       Store(p, input, id)
  \/ \E p \in cfg.projects, id \in cfg.ids : IncrementAccessGet(p, id)
  \/ IncrementAccessSet
  \/ \E p \in cfg.projects, id \in cfg.ids, u \in cfg.updates : UpdateGet(p, id, u)
  \/ UpdateRemove
  \/ UpdateSet
  \/ UpdateScore
  \/ UpdateAdd
  \/ \E p \in cfg.projects, id \in cfg.ids : DeleteGet(p, id)
  \/ DeleteRemove
  \/ DeleteDel
  \/ Tick

SpecRace == InitRace /\ [][NextRace]_vars

(* C32. In the Redis backend every record key carries the expiry set at    *)
(* its creation, ttlDays after createdAt: no sequence or interleaving of   *)
(* store, update, incrementAccess, delete and expiry leaves or creates a   *)
(* record without an expiry, and update and incrementAccess never extend   *)
(* the lifetime of a record.                                               *)
C32_RecordsExpire ==
  \A k \in DOMAIN redis.entry :
    /\ IsSome(redis.entry[k].exp)
    /\ Val(redis.entry[k].exp) = JsonParse(redis.entry[k].val).createdAt + cfg.ttlDays

(* C36. In the Redis backend, once delete(id) has completed, get(id)       *)
(* returns null in every later state, also when an incrementAccess or an   *)
(* update of the same id was in progress during the delete: no             *)
(* interleaving creates the record again, nor its index entries (which,    *)
(* while no record has expired, are those of existing records only).       *)
C36_DeletedStaysDeleted ==
  \A p \in cfg.projects, id \in cfg.deleted :
    /\ ~IsSome(Get(p, id))
    /\ now = 0 => id \notin IndexedIds(p)

(* C37. incrementAccess changes only accessCount and updatedAt: when an    *)
(* incrementAccess and an update of the same id have both finished, in     *)
(* whatever interleaving, the fields the completed update wrote are in     *)
(* the record.                                                             *)
C37_UpdateSurvivesTouch ==
  (\A name \in DOMAIN cfg.ops : OpOf(name).pc = "idle") =>
    \A p \in cfg.projects : \A id \in LiveIds(p) \ cfg.deleted :
      LET wrote == cfg.wrote[id]
          entry == Entry(p, id)
      IN  /\ IsSome(wrote.content) => entry.content = Val(wrote.content)
          /\ IsSome(wrote.importance) => entry.importance = Val(wrote.importance)
          /\ IsSome(wrote.metadata) => entry.metadata = wrote.metadata
          /\ IsSome(wrote.tags) => entry.tags = wrote.tags

(* C33. getByTags uses exact-token matching in both backends: every entry  *)
(* it returns has a tag equal, character for character and with the same   *)
(* letter case, to one of the requested tags; a requested tag matches no   *)
(* stored tag that differs from it in case or that it matches as a         *)
(* pattern.                                                                *)
C33_ExactTagMatch ==
  \A p \in cfg.projects, g \in AskedTags :
    LET ret == GetByTags(p, <<g>>, DefaultLimit)
    IN  \A i \in DOMAIN ret : IsSome(ret[i].tags) /\ g \in Range(Val(ret[i].tags))

---------------------------------------------------------------------------
(* The memory_get_context tool called without a query: the entries it      *)
(* lists, getImportant(ceil(n / 2)) and then those of getRecent(floor(n /  *)
(* 2)) not among them, for n = limit || 10.                                *)
memory_get_context(p, limit) ==
  LET n == IF limit # 0 THEN limit ELSE DefaultLimit
      important == GetImportant(p, (n + 1) \div 2)
      recent == GetRecent(p, n \div 2)
      seen == IdsOf(important)
  IN  important \o SelectSeq(recent, LAMBDA e : e.id \notin seen)

(* The options of a search with this limit and no filter. *)
WithLimit(limit) == [NoOptions EXCEPT !.limit = Some(limit)]

(* C34. For every integer limit >= 0, searchByKeyword, searchByEmbedding,  *)
(* getByType, getByTags, getRecent and getImportant return at most limit   *)
(* entries on both backends (none for limit = 0), and the                  *)
(* memory_get_context tool called without a query lists at most its limit  *)
(* entries.                                                                *)
C34_AtMostLimit ==
  \A p \in cfg.projects, limit \in Limits :
    /\ Len(GetRecent(p, limit)) <= limit
    /\ Len(GetImportant(p, limit)) <= limit
    /\ \A type \in AllTypes : Len(GetByType(p, type, limit)) <= limit
    /\ \A tags \in TagLists : Len(GetByTags(p, tags, limit)) <= limit
    /\ \A q \in cfg.queries : Len(KeywordSearch(p, q.query, WithLimit(limit)).ret) <= limit
    /\ \A q \in cfg.vectors : Len(EmbeddingSearch(p, q.query, WithLimit(limit)).ret) <= limit
    /\ limit > 0 => Len(memory_get_context(p, limit)) <= limit

---------------------------------------------------------------------------
(* RedisStorage.waitForConnection, event by event. cfg.wait holds the      *)
(* connected flag, the client's status, the promise of one call (pc,       *)
(* result, the time of its settlement), its timer and its once-listeners,  *)
(* the time since the call and the events so far. The client goes          *)
(* connecting -> connect -> ready and back to connecting on an error.      *)

MaxWait == 3

MaxEvents == 4

(* resolve(value): settles the promise of the pending call; a settled      *)
(* promise ignores it.                                                     *)
Resolve(w, value, event) ==
  IF w.pc = "pending"
    THEN [w EXCEPT !.pc = "done", !.result = Some(value), !.at = Some(w.elapsed),
                   !.first = Some(event)]
    ELSE w

WaitStep(w) ==
  /\ cfg' = [cfg EXCEPT !.wait = w]
  /\ UNCHANGED <<now, usedIds, sqlite, redis, last>>

Heard(w, event) == [w EXCEPT !.events = Append(w.events, event)]

(* this.redis.on("connect", () => { this.connected = true; }) *)
OnConnect ==
  /\ cfg.wait.status = "connecting"
  /\ Len(cfg.wait.events) < MaxEvents
  /\ WaitStep([Heard(cfg.wait, "connect") EXCEPT !.status = "connect", !.connected = TRUE])

(* this.redis.on("ready", ...) and, when registered, onReady: clearTimeout, *)
(* this.connected = true, resolve(true).                                    *)
OnReady ==
  /\ cfg.wait.status = "connect"
  /\ Len(cfg.wait.events) < MaxEvents
  /\ LET w == [Heard(cfg.wait, "ready") EXCEPT !.status = "ready", !.connected = TRUE,
                                               !.everReady = TRUE]
     IN  WaitStep(IF w.onReady
                    THEN [Resolve(w, TRUE, "ready") EXCEPT !.timer = FALSE, !.onReady = FALSE]
                    ELSE w)

(* this.redis.on("error", ...) and, when registered, onError: clearTimeout, *)
(* resolve(false).                                                          *)
OnError ==
  /\ Len(cfg.wait.events) < MaxEvents
  /\ LET w == [Heard(cfg.wait, "error") EXCEPT !.status = "connecting", !.connected = FALSE]
     IN  WaitStep(IF w.onError
                    THEN [Resolve(w, FALSE, "error") EXCEPT !.timer = FALSE, !.onError = FALSE]
                    ELSE w)

(* waitForConnection(timeoutMs) up to the return of its promise. *)
WaitCall(timeoutMs) ==
  /\ cfg.wait.pc = "idle"
  /\ LET w == [cfg.wait EXCEPT !.timeoutMs = timeoutMs, !.pc = "pending"]
     IN  WaitStep(IF w.connected THEN Resolve(w, TRUE, "connected")
                  ELSE IF w.status = "ready"
                    THEN Resolve([w EXCEPT !.connected = TRUE], TRUE, "status")
                  ELSE [w EXCEPT !.timer = TRUE, !.onReady = TRUE, !.onError = TRUE])

(* setTimeout(() => { resolve(false); }, timeoutMs) *)
WaitTimeout ==
  /\ cfg.wait.timer
  /\ cfg.wait.elapsed = cfg.wait.timeoutMs
  /\ WaitStep([Resolve(cfg.wait, FALSE, "timeout") EXCEPT !.timer = FALSE])

(* Time passes after the call; a due timer fires first. *)
WaitTick ==
  /\ cfg.wait.pc # "idle"
  /\ cfg.wait.elapsed < MaxWait
  /\ ~(cfg.wait.timer /\ cfg.wait.elapsed = cfg.wait.timeoutMs)
  /\ WaitStep([cfg.wait EXCEPT !.elapsed = @ + 1])

WaitConfig ==
  [Config("redis", 1) EXCEPT !.maxMemories = None]
    @@ [wait |-> [connected |-> FALSE, status |-> "connecting", everReady |-> FALSE,
                  pc |-> "idle", result |-> None, at |-> None, first |-> None,
                  timeoutMs |-> 0, timer |-> FALSE, onReady |-> FALSE,
                  onError |-> FALSE, elapsed |-> 0, events |-> <<>>]]

InitWait == Start(WaitConfig)

NextWait ==
  \/ OnConnect
  \/ OnReady
  \/ OnError
  \/ \E timeoutMs \in 1..(MaxWait - 1) : WaitCall(timeoutMs)
  \/ WaitTimeout
  \/ WaitTick

SpecWait == InitWait /\ [][NextWait]_vars

(* The call has settled by its timeout. *)
SettledInTime ==
  LET w == cfg.wait
  IN  /\ w.pc = "pending" => w.elapsed <= w.timeoutMs /\ w.timer
      /\ w.pc = "done" => Val(w.at) <= w.timeoutMs

(* C35. waitForConnection(timeoutMs) resolves once and no later than       *)
(* timeoutMs after the call, whatever order the connect, ready and error   *)
(* events arrive in: true only if the connection has reached the ready     *)
(* state, false if an error event or the timeout comes first.              *)
C35_WaitResolves ==
  LET w == cfg.wait
  IN  /\ SettledInTime
      /\ w.result = Some(TRUE) => w.everReady
      /\ IsSome(w.first) /\ Val(w.first) \in {"error", "timeout"} => w.result = Some(FALSE)

---------------------------------------------------------------------------
(* The two per-key caches: memoryCache of the agent tools (getProjectMemory) *)
(* and agents of the REST layer (getOrCreateAgent). cfg.cache maps a layer   *)
(* and a key to the cached instance, cfg.created holds every instance built  *)
(* as <<layer, key, instance>>, and cfg.reqs the requests in progress: each  *)
(* runs up to its await, and resumes when the creation resolves.             *)

MaxRequests == 3

IdleRequest == [pc |-> "idle", layer |-> "", key |-> "", got |-> None]

CacheStep(r, req, cache, created) ==
  /\ cfg' = [cfg EXCEPT !.reqs[r] = req, !.cache = cache, !.created = created]
  /\ UNCHANGED <<now, usedIds, sqlite, redis, last>>

(* if (!cache.has(key)) { ... await create ... } return cache.get(key)!, up *)
(* to the await or, on a hit, to the return.                                *)
CacheCheck(r, layer, key) ==
  /\ cfg.reqs[r].pc = "idle"
  /\ LET hit == <<layer, key>> \in DOMAIN cfg.cache
         req == [pc |-> IF hit THEN "done" ELSE "awaiting", layer |-> layer, key |-> key,
                 got |-> IF hit THEN Some(cfg.cache[<<layer, key>>]) ELSE None]
     IN  CacheStep(r, req, cfg.cache, cfg.created)

(* The creation resolves with a new instance: cache.set(key, instance) and  *)
(* return cache.get(key)!.                                                  *)
CacheResume(r, layer) ==
  /\ cfg.reqs[r].pc = "awaiting"
  /\ cfg.reqs[r].layer = layer
  /\ LET key == cfg.reqs[r].key
         instance == Cardinality(cfg.created) + 1
         cache == (<<layer, key>> :> instance) @@ cfg.cache
     IN  CacheStep(r, [cfg.reqs[r] EXCEPT !.pc = "done", !.got = Some(cache[<<layer, key>>])],
                   cache, cfg.created \cup {<<layer, key, instance>>})

(* getProjectMemory(projectId) up to await createProjectMemory(...) *)
getProjectMemoryCheck(r, projectId) == CacheCheck(r, "memoryCache", projectId)

(* memoryCache.set(projectId, memory); return memoryCache.get(projectId)! *)
getProjectMemoryResume(r) == CacheResume(r, "memoryCache")

(* getOrCreateAgent(projectId, sessionId) up to await createMemoryAgent(...), *)
(* with key = sessionId || projectId.                                        *)
getOrCreateAgentCheck(r, projectId, sessionId) ==
  CacheCheck(r, "agents", IF IsSome(sessionId) /\ Val(sessionId) # "" THEN Val(sessionId)
                          ELSE projectId)

(* agents.set(key, agent); return agents.get(key)! *)
getOrCreateAgentResume(r) == CacheResume(r, "agents")

CacheConfig ==
  [Config("sqlite", 1) EXCEPT !.maxMemories = None, !.projects = {"P", "Q"}]
    @@ [cache |-> <<>>, created |-> {}, reqs |-> [r \in 1..MaxRequests |-> IdleRequest]]

InitCache == Start(CacheConfig)

NextCache ==
  \/ \E r \in 1..MaxRequests, projectId \in cfg.projects : getProjectMemoryCheck(r, projectId)
  \/ \E r \in 1..MaxRequests : getProjectMemoryResume(r)
  \/ \E r \in 1..MaxRequests, projectId \in cfg.projects, sessionId \in {None, Some("s")} :
       getOrCreateAgentCheck(r, projectId, sessionId)
  \/ \E r \in 1..MaxRequests : getOrCreateAgentResume(r)

SpecCache == InitCache /\ [][NextCache]_vars

(* C38. For each project key at most one ProjectMemory facade (and one     *)
(* MemoryAgent in the REST layer) is ever created, and every request for   *)
(* the key uses the same instance, also when requests for a key not yet    *)
(* cached arrive while the first creation is still awaiting.               *)
C38_OneInstancePerKey ==
  /\ \A a \in cfg.created, b \in cfg.created : a[1] = b[1] /\ a[2] = b[2] => a[3] = b[3]
  /\ \A r \in 1..MaxRequests, s \in 1..MaxRequests :
       (/\ cfg.reqs[r].pc = "done" /\ cfg.reqs[s].pc = "done"
        /\ cfg.reqs[r].layer = cfg.reqs[s].layer /\ cfg.reqs[r].key = cfg.reqs[s].key)
         => cfg.reqs[r].got = cfg.reqs[s].got

---------------------------------------------------------------------------
(* A fresh ShortTermMemory that only receives addMessage calls. cfg.added  *)
(* is the history of the messages added, oldest first.                     *)

MaxAdded == 4

(* getRawMessages(): return [...this.messages] *)
getRawMessages(shortTerm) == shortTerm.messages

(* new HumanMessage / AIMessage / SystemMessage (content) by role. *)
ToLangChain(msg) ==
  [type |-> IF msg.role = "user" THEN "human"
            ELSE IF msg.role = "assistant" THEN "ai" ELSE "system",
   content |-> msg.content]

RECURSIVE ConvertMessages(_)
ConvertMessages(messages) ==
  IF messages = <<>> THEN <<>>
  ELSE LET msg == Head(messages)
           rest == ConvertMessages(Tail(messages))
       IN  IF msg.role \in {"user", "assistant", "system"}
             THEN <<ToLangChain(msg)>> \o rest
             ELSE rest

(* getMessages(): the system prompt first if (this.config.systemPrompt),   *)
(* then the stored messages converted by role.                             *)
getMessages(shortTerm) ==
  (IF IsSome(shortTerm.config.systemPrompt) /\ Val(shortTerm.config.systemPrompt) # <<>>
     THEN <<[type |-> "system", content |-> Val(shortTerm.config.systemPrompt)]>>
     ELSE <<>>)
  \o ConvertMessages(shortTerm.messages)

(* addMessage(role, content), with the message appended to the history. *)
addMessageRecorded(role, content) ==
  /\ Len(cfg.added) < MaxAdded
  /\ cfg' = [cfg EXCEPT !.shortTerm.messages = Pushed(role, content),
                        !.added = Append(@, ConversationEntry(role, content, now))]
  /\ last' = Call("addMessage", "")
  /\ UNCHANGED <<now, usedIds, sqlite, redis>>

TrimConfig(maxMessages, systemPrompt) ==
  [Config("none", 1) EXCEPT !.maxMemories = None]
    @@ [shortTerm |-> [config |-> [maxMessages |-> maxMessages, sessionId |-> "s",
                                   systemPrompt |-> systemPrompt],
                       messages |-> <<>>],
        added |-> <<>>]

InitTrim ==
  \E maxMessages \in 0..MaxMessages, systemPrompt \in {None, Some(<<>>), Some(<<"p">>)} :
    Start(TrimConfig(maxMessages, systemPrompt))

NextTrim ==
  \/ \E role \in {"user", "assistant", "system"}, content \in {<<"a">>, <<"b">>} :
       addMessageRecorded(role, content)
  \/ Tick

SpecTrim == InitTrim /\ [][NextTrim]_vars

(* The last k elements of a sequence. *)
LastOf(s, k) == SubSeq(s, Len(s) - k + 1, Len(s))

(* C39. After n addMessage calls on a fresh ShortTermMemory with           *)
(* maxMessages = m >= 0, getRawMessages() is exactly the last min(n, m)    *)
(* messages added, in the order they were added, and getMessages() begins  *)
(* with the configured system prompt when one is configured.               *)
C39_LastMessagesKept ==
  LET st == cfg.shortTerm
      n == Len(cfg.added)
  IN  /\ getRawMessages(st) = LastOf(cfg.added, Min(n, st.config.maxMessages))
      /\ IsSome(st.config.systemPrompt) /\ Val(st.config.systemPrompt) # <<>>
           => /\ Head(getMessages(st)) = [type |-> "system", content |-> Val(st.config.systemPrompt)]
              /\ Tail(getMessages(st)) = ConvertMessages(getRawMessages(st))

(* More messages were added than the buffer holds, the oldest of them      *)
(* differs from those kept, and a system prompt is configured.             *)
C39_Witness ==
  /\ Len(cfg.added) > cfg.shortTerm.config.maxMessages
  /\ cfg.shortTerm.config.maxMessages >= 1
  /\ Head(cfg.added) # Head(cfg.shortTerm.messages)
  /\ cfg.shortTerm.config.systemPrompt = Some(<<"p">>)
  /\ Len(getMessages(cfg.shortTerm)) = 1 + cfg.shortTerm.config.maxMessages

---------------------------------------------------------------------------
(* The chat-driven extraction path. An item is one element of the          *)
(* knowledge array parsed from the model's reply; the call stores it       *)
(* through the facade.                                                     *)

(* A mutation of validateMemoryType: the extracted type is passed on. *)
validateMemoryTypeUnchecked(type) == type

(* validTypes.includes(type) ? type : "context" *)
validateMemoryType(type) ==
  LET validTypes == <<"context", "architecture", "dependency", "config", "pattern",
                      "decision", "todo", "issue">>
  IN  IF type \in Range(validTypes) THEN type ELSE "context"

(* The body of the loop of extractAndStoreKnowledge for one item: the type *)
(* validated, the importance brought into [0, 1].                          *)
extractAndStoreKnowledge(p, item, id, outcome) ==
  LET type == validateMemoryType(item.type)
  IN  ProjectMemoryStoreAs("extractAndStoreKnowledge", p,
        Input(item.content, type, Some(Min(100, Max(0, item.importance))), None,
              Some({<<"extractedFrom", "conversation">>}), item.tags),
        id, outcome)

(* Type values a reply may carry besides the eight of the interface. *)
OtherTypes == {"note", "Context", ""}

ExtractedItems ==
  {[content |-> <<"a">>, type |-> type, importance |-> 150, tags |-> None] :
     type \in {"context", "decision", "issue"} \cup OtherTypes}

(* Entries a caller of ProjectMemory.store passes, one with a type outside *)
(* the interface.                                                          *)
ExtractEntries ==
  {Input(<<"b">>, "issue", None, None, None, None),
   Input(<<"b">>, "note", Some(30), None, None, Some(<<TagAuth>>))}

ExtractConfig(backend) ==
  [FacadeConfig(backend, None, TRUE) EXCEPT
     !.inputs = ExtractEntries, !.embedVectors = {<<1, 0>>}, !.maxTime = 0]

InitExtract == \E backend \in {"redis", "sqlite"} : Start(ExtractConfig(backend))

NextExtract ==
  \/ \E p \in cfg.projects, item \in ExtractedItems, id \in cfg.ids,
        outcome \in EmbedOutcomes :
       extractAndStoreKnowledge(p, item, id, outcome)
  \/ \E p \in cfg.projects, input \in cfg.inputs, id \in cfg.ids,
        outcome \in EmbedOutcomes :
       ProjectMemoryStore(p, input, id, outcome)

SpecExtract == InitExtract /\ [][NextExtract]_vars

(* The type of the entry the backend returns for the id of the last call. *)
PersistedType == Entry(last.proj, last.id).type

(* C40. Every item stored by extractAndStoreKnowledge has a type among     *)
(* context, architecture, dependency, config, pattern, decision, todo and  *)
(* issue, any other extracted type being replaced by context, while        *)
(* ProjectMemory.store and both backends persist the type they are given   *)
(* unchanged and unvalidated.                                              *)
C40_TypeValidatedByCaller ==
  [][/\ \A p \in cfg.projects, item \in ExtractedItems, id \in cfg.ids,
          outcome \in EmbedOutcomes :
          extractAndStoreKnowledge(p, item, id, outcome) =>
            /\ IsSome(last'.entry)
            /\ PersistedType' \in AllTypes
            /\ PersistedType' = IF item.type \in AllTypes THEN item.type ELSE "context"
     /\ \A p \in cfg.projects, input \in cfg.inputs, id \in cfg.ids,
          outcome \in EmbedOutcomes :
          ProjectMemoryStore(p, input, id, outcome) =>
            /\ IsSome(last'.entry)
            /\ PersistedType' = input.type]_vars

(* An extracted item of another type was stored as context beside an entry *)
(* that ProjectMemory.store persisted with a type outside the interface.   *)
C40_Witness ==
  /\ last.op = "extractAndStoreKnowledge"
  /\ IsSome(last.entry)
  /\ PersistedType = "context"
  /\ \E id \in LiveIds(last.proj) : Entry(last.proj, id).type = "note"

=============================================================================
